---- MODULE Spec2Model ----
(***************************************************************************)
(* vault-mind: link classification (analyzers/links.ts), knowledge graph   *)
(* (analyzers/graph.ts) and repair planning (fixers/index.ts).             *)
(*                                                                         *)
(* Strings are sequences of one-character strings, so that lower-casing,   *)
(* basename, prefix/suffix tests and '#' splitting are computed the way    *)
(* the code computes them.                                                 *)
(***************************************************************************)
EXTENDS Integers, Sequences, FiniteSets, TLC

VARIABLES files, pc, linkReport, graphData, fixPlan, only, args, returned, disk, answers,
          debounce, now, watchLog

vars == <<files, pc, linkReport, graphData, fixPlan, only, args, returned, disk, answers,
          debounce, now, watchLog>>

(***************************************************************************)
(* Bounds of the explored vaults.                                          *)
(***************************************************************************)
MaxFiles == 2
MaxLinks == 2
MaxGraphFiles == 4
MaxGraphLinks == 2
MaxEdgeFiles == 3
MaxEdgeLinks == 2
MaxFixFiles == 3
MaxRewriteFiles == 3
MaxNoopFiles == 4
MaxApplyFiles == 3
MaxIsolatedFiles == 3
MaxOrphanFiles == 4
MaxHubFiles == 12
MaxLevLen == 3
MaxMatchNames == 2
MaxBrokenLinks == 2
MaxMergeFiles == 4
MaxChainFiles == 4
MaxEvents == 3
MaxTicks == 5
TICK_MS == 500

(***************************************************************************)
(* String primitives (String.prototype.* and path.basename).               *)
(***************************************************************************)
Range(s) == {s[i] : i \in 1..Len(s)}

LowerChar(c) ==
  CASE c = "A" -> "a" [] c = "B" -> "b" [] c = "C" -> "c" [] c = "D" -> "d"
    [] c = "E" -> "e" [] c = "F" -> "f" [] c = "G" -> "g" [] c = "H" -> "h"
    [] c = "I" -> "i" [] c = "J" -> "j" [] c = "K" -> "k" [] c = "L" -> "l"
    [] c = "M" -> "m" [] c = "N" -> "n" [] c = "O" -> "o" [] c = "P" -> "p"
    [] c = "Q" -> "q" [] c = "R" -> "r" [] c = "S" -> "s" [] c = "T" -> "t"
    [] c = "U" -> "u" [] c = "V" -> "v" [] c = "W" -> "w" [] c = "X" -> "x"
    [] c = "Y" -> "y" [] c = "Z" -> "z"
    [] OTHER -> c

ToLowerCase(s) == [i \in 1..Len(s) |-> LowerChar(s[i])]

Includes(s, c) == c \in Range(s)

UpperLetters ==
  { "A","B","C","D","E","F","G","H","I","J","K","L","M",
    "N","O","P","Q","R","S","T","U","V","W","X","Y","Z" }

LowerLetters ==
  { "a","b","c","d","e","f","g","h","i","j","k","l","m",
    "n","o","p","q","r","s","t","u","v","w","x","y","z" }

\* the regular expression class \s
Spaces == {" ", "\n", "\t", "\r"}

\* the sub-string starts at position i (1-based)
MatchesAt(s, i, sub) ==
  i >= 1 /\ i + Len(sub) - 1 <= Len(s) /\ SubSeq(s, i, i + Len(sub) - 1) = sub

\* s.indexOf(sub, from), 1-based, 0 when absent
IndexOfSub(s, sub, from) ==
  LET hits == {i \in from..(Len(s) - Len(sub) + 1) : MatchesAt(s, i, sub)}
  IN  IF hits = {} THEN 0 ELSE CHOOSE i \in hits : \A j \in hits : i <= j

\* s.includes(sub)
IncludesSub(s, sub) == IndexOfSub(s, sub, 1) > 0

\* the position after the longest run of characters in class at position i
RECURSIVE RunEnd(_, _, _)
RunEnd(s, i, class) ==
  IF i <= Len(s) /\ s[i] \in class THEN RunEnd(s, i + 1, class) ELSE i

\* the position after the longest run of characters outside class at position i
RECURSIVE RunEndNot(_, _, _)
RunEndNot(s, i, class) ==
  IF i <= Len(s) /\ s[i] \notin class THEN RunEndNot(s, i + 1, class) ELSE i

Max(a, b) == IF a >= b THEN a ELSE b

Min(a, b) == IF a <= b THEN a ELSE b

\* 1-based index of the first occurrence of c, 0 when absent
IndexOf(s, c) ==
  IF Includes(s, c) THEN CHOOSE i \in 1..Len(s) : s[i] = c /\ \A j \in 1..(i - 1) : s[j] /= c
  ELSE 0

StartsWith(s, pre) == Len(pre) <= Len(s) /\ SubSeq(s, 1, Len(pre)) = pre

EndsWith(s, suf) == Len(suf) <= Len(s) /\ SubSeq(s, Len(s) - Len(suf) + 1, Len(s)) = suf

RECURSIVE TrimEnd(_)
TrimEnd(s) == IF s /= <<>> /\ s[Len(s)] \in Spaces THEN TrimEnd(SubSeq(s, 1, Len(s) - 1)) ELSE s

Trim(s) == TrimEnd(SubSeq(s, RunEnd(s, 1, Spaces), Len(s)))

MdExt == <<".", "m", "d">>

\* s.replace(/\.md$/, ""), and target.endsWith(".md") ? target.slice(0, -3) : target
StripMd(s) == IF EndsWith(s, MdExt) THEN SubSeq(s, 1, Len(s) - 3) ELSE s

RECURSIVE StripTrailingSlashes(_)
StripTrailingSlashes(s) ==
  IF s /= <<>> /\ s[Len(s)] = "/" THEN StripTrailingSlashes(SubSeq(s, 1, Len(s) - 1)) ELSE s

\* path.basename(p): the last path segment, trailing separators ignored
Basename(p) ==
  LET q == StripTrailingSlashes(p)
      slashes == {i \in 1..Len(q) : q[i] = "/"}
      last == IF slashes = {} THEN 0 ELSE CHOOSE i \in slashes : \A j \in slashes : j <= i
  IN  SubSeq(q, last + 1, Len(q))

\* path.basename(p, ext): the extension is removed unless it is the whole segment
BasenameExt(p, ext) ==
  LET b == Basename(p)
  IN  IF p = ext THEN <<>>
      ELSE IF EndsWith(b, ext) /\ b /= ext THEN SubSeq(b, 1, Len(b) - Len(ext))
      ELSE b

\* s.replace(/\\/g, "/")
SlashNormalize(s) == [i \in 1..Len(s) |-> IF s[i] = "\\" THEN "/" ELSE s[i]]

(***************************************************************************)
(* analyzers/links.ts                                                      *)
(***************************************************************************)
STRUCTURAL_DIRS ==
  { <<"m","e","m","o","r","y","/">>,  <<"m","e","m","o","r","y","\\">>,
    <<"r","e","p","o","r","t","s","/">>, <<"r","e","p","o","r","t","s","\\">>,
    <<"t","e","m","p","l","a","t","e","s","/">>, <<"t","e","m","p","l","a","t","e","s","\\">>,
    <<"s","k","i","l","l","s","/">>, <<"s","k","i","l","l","s","\\">>,
    <<"d","o","c","s","/">>, <<"d","o","c","s","\\">>,
    <<"r","e","s","e","a","r","c","h","/">>, <<"r","e","s","e","a","r","c","h","\\">> }

isStructuralPath(relativePath) ==
  LET normalized == SlashNormalize(relativePath)
  IN  \E dir \in STRUCTURAL_DIRS : StartsWith(normalized, SlashNormalize(dir))

\* keys of the fileNamesLower map
fileNamesLower(fs) ==
  UNION { { ToLowerCase(BasenameExt(fs[i].relativePath, MdExt)),
            ToLowerCase(StripMd(fs[i].relativePath)) } : i \in 1..Len(fs) }

fileRelativePaths(fs) ==
  UNION { { fs[i].relativePath, ToLowerCase(fs[i].relativePath) } : i \in 1..Len(fs) }

Invalid == [valid |-> FALSE, pathStyle |-> FALSE, suggestedName |-> <<>>]
ValidPlain == [valid |-> TRUE, pathStyle |-> FALSE, suggestedName |-> <<>>]
ValidPath(name) == [valid |-> TRUE, pathStyle |-> TRUE, suggestedName |-> name]

\* the part of a section link before its first '#', trimmed
FilePart(target) == Trim(SubSeq(target, 1, IndexOf(target, "#") - 1))

\* steps 2 and 3 of resolveLink: a target without '#', no filesystem probe
resolveNoSection(target, fs) ==
  LET withMd == IF EndsWith(target, MdExt) THEN target ELSE target \o MdExt IN
  IF ToLowerCase(target) \in fileNamesLower(fs)
  THEN IF Includes(target, "/") THEN ValidPath(Basename(StripMd(target))) ELSE ValidPlain
  ELSE IF Includes(target, "/")
       THEN IF \/ withMd \in fileRelativePaths(fs)
               \/ ToLowerCase(withMd) \in fileRelativePaths(fs)
               \/ StripMd(target) \in fileRelativePaths(fs)
               \/ ToLowerCase(StripMd(target)) \in fileRelativePaths(fs)
            THEN ValidPath(Basename(StripMd(target)))
            ELSE Invalid
       ELSE Invalid

\* resolveLink with every section link taken as valid
resolveLinkSectionValid(target, fs) ==
  IF Includes(target, "#") THEN ValidPlain ELSE resolveNoSection(target, fs)

\* step 1 of resolveLink: the section part is dropped and the file part resolved
RECURSIVE resolveLink(_, _)
resolveLink(target, fs) ==
  IF Includes(target, "#")
  THEN IF FilePart(target) = <<>> THEN ValidPlain ELSE resolveLink(FilePart(target), fs)
  ELSE resolveNoSection(target, fs)

\* every link occurrence, in document order and then link order
RECURSIVE Occurrences(_)
Occurrences(fs) ==
  IF fs = <<>> THEN <<>>
  ELSE LET f == fs[Len(fs)]
       IN  Occurrences(SubSeq(fs, 1, Len(fs) - 1)) \o
           [k \in 1..Len(f.wikilinks) |-> [source |-> f.relativePath, target |-> f.wikilinks[k]]]

linkTargets(link, relativePath) ==
  LET n == IF Includes(link, "#")
           THEN IF FilePart(link) /= <<>> THEN FilePart(link)
                ELSE BasenameExt(relativePath, MdExt)
           ELSE link
  IN  {ToLowerCase(n)} \cup
      (IF Includes(n, "/") THEN {ToLowerCase(Basename(StripMd(n)))} ELSE {})

\* linkedTargets fed by the links that resolve only
linkedTargetsResolved(fs) ==
  UNION { UNION { IF resolveLink(fs[i].wikilinks[k], fs).valid
                  THEN linkTargets(fs[i].wikilinks[k], fs[i].relativePath) ELSE {} :
                    k \in 1..Len(fs[i].wikilinks) } : i \in 1..Len(fs) }

linkedTargets(fs) ==
  UNION { UNION { linkTargets(fs[i].wikilinks[k], fs[i].relativePath) :
                    k \in 1..Len(fs[i].wikilinks) } : i \in 1..Len(fs) }

Paths(fs) == [i \in 1..Len(fs) |-> fs[i].relativePath]

\* a / b for b > 0, else 0; kept as an exact fraction
Ratio(a, b) == IF b > 0 THEN [num |-> a, den |-> b] ELSE [num |-> 0, den |-> 1]

knowledgeFilesCount(fs) == Cardinality({i \in 1..Len(fs) : ~isStructuralPath(fs[i].relativePath)})

\* brokenLinks reporting the file part of a section link instead of the raw text
brokenLinksFilePart(fs) ==
  LET IsBroken(o) == ~resolveLink(o.target, fs).valid
      b == SelectSeq(Occurrences(fs), IsBroken)
  IN  [i \in 1..Len(b) |->
         [source |-> b[i].source,
          target |-> IF Includes(b[i].target, "#") THEN FilePart(b[i].target) ELSE b[i].target]]

brokenLinks(fs) ==
  LET IsBroken(o) == ~resolveLink(o.target, fs).valid
  IN  SelectSeq(Occurrences(fs), IsBroken)

pathStyleLinks(fs) ==
  LET IsPathStyle(o) == LET r == resolveLink(o.target, fs)
                        IN  r.valid /\ r.pathStyle /\ r.suggestedName /= <<>>
      ps == SelectSeq(Occurrences(fs), IsPathStyle)
  IN  [i \in 1..Len(ps) |->
         [source |-> ps[i].source, target |-> ps[i].target,
          suggestedName |-> resolveLink(ps[i].target, fs).suggestedName]]

orphanFiles(fs) ==
  LET IsOrphanFile(f) ==
        /\ ToLowerCase(BasenameExt(f.relativePath, MdExt)) \notin linkedTargets(fs)
        /\ ToLowerCase(StripMd(f.relativePath)) \notin linkedTargets(fs)
  IN  Paths(SelectSeq(fs, IsOrphanFile))

structuralOrphans(fs) ==
  LET IsStructural(p) == isStructuralPath(p)
  IN  SelectSeq(orphanFiles(fs), IsStructural)

knowledgeOrphansAll(fs) == orphanFiles(fs)

knowledgeOrphans(fs) ==
  LET IsKnowledge(p) == ~isStructuralPath(p)
  IN  SelectSeq(orphanFiles(fs), IsKnowledge)

connectivityScore(fs) == Ratio(Len(fs) - Len(orphanFiles(fs)), Len(fs))

knowledgeConnectivityAllOrphans(fs) ==
  Ratio(knowledgeFilesCount(fs) - Len(orphanFiles(fs)), knowledgeFilesCount(fs))

knowledgeConnectivity(fs) ==
  Ratio(knowledgeFilesCount(fs) - Len(knowledgeOrphans(fs)), knowledgeFilesCount(fs))

analyzeLinks(fs) ==
  [ totalLinks |-> Len(Occurrences(fs)),
    uniqueLinks |-> Cardinality({Occurrences(fs)[i].target : i \in 1..Len(Occurrences(fs))}),
    brokenLinks |-> brokenLinks(fs),
    pathStyleLinks |-> pathStyleLinks(fs),
    orphanFiles |-> orphanFiles(fs),
    structuralOrphans |-> structuralOrphans(fs),
    knowledgeOrphans |-> knowledgeOrphans(fs),
    connectivityScore |-> connectivityScore(fs),
    knowledgeConnectivity |-> knowledgeConnectivity(fs) ]

NoReport == [none |-> TRUE]

(***************************************************************************)
(* analyzers/graph.ts                                                      *)
(***************************************************************************)
NoPath == <<>>

\* Set.prototype.add on an insertion-ordered set
AddOrd(s, x) == IF x \in Range(s) THEN s ELSE Append(s, x)

\* fileNameToPath where the first document of a name wins
fileNameToPathFirst(name, fs) ==
  LET hits == {i \in 1..Len(fs) : ToLowerCase(BasenameExt(fs[i].relativePath, MdExt)) = name}
  IN  IF hits = {} THEN NoPath
      ELSE fs[CHOOSE i \in hits : \A j \in hits : i <= j].relativePath

\* fileNameToPath.get(name): a later document overwrites an earlier one
fileNameToPath(name, fs) ==
  LET hits == {i \in 1..Len(fs) : ToLowerCase(BasenameExt(fs[i].relativePath, MdExt)) = name}
  IN  IF hits = {} THEN NoPath
      ELSE fs[CHOOSE i \in hits : \A j \in hits : j <= i].relativePath

\* graphEdges keeping the links of a document to itself
graphEdgesWithSelf(fs) ==
  LET occ == Occurrences(fs)
      Yields(o) == fileNameToPath(ToLowerCase(o.target), fs) /= NoPath
      kept == SelectSeq(occ, Yields)
  IN  [i \in 1..Len(kept) |->
         [source |-> kept[i].source,
          target |-> fileNameToPath(ToLowerCase(kept[i].target), fs)]]

graphEdges(fs) ==
  LET occ == Occurrences(fs)
      Yields(o) ==
        LET targetPath == fileNameToPath(ToLowerCase(o.target), fs)
        IN  targetPath /= NoPath /\ targetPath /= o.source
      kept == SelectSeq(occ, Yields)
  IN  [i \in 1..Len(kept) |->
         [source |-> kept[i].source,
          target |-> fileNameToPath(ToLowerCase(kept[i].target), fs)]]

\* adjacency.get(source)?.add(target), edge by edge
RECURSIVE addTargets(_, _)
addTargets(adj, es) ==
  IF es = <<>> THEN adj
  ELSE addTargets([adj EXCEPT ![Head(es).source] = AddOrd(@, Head(es).target)], Tail(es))

\* adjacency: document -> insertion-ordered set of link targets
graphAdjacency(fs) ==
  addTargets([p \in Range(Paths(fs)) |-> <<>>], graphEdges(fs))

\* the (source, target) pairs of an adjacency map in its iteration order
RECURSIVE adjPairs(_, _)
adjPairs(paths, adj) ==
  IF paths = <<>> THEN <<>>
  ELSE LET p == paths[Len(paths)]
       IN  adjPairs(SubSeq(paths, 1, Len(paths) - 1), adj) \o
           [k \in 1..Len(adj[p]) |-> <<p, adj[p][k]>>]

\* addBoth without the reverse direction
RECURSIVE addForward(_, _)
addForward(und, pairs) ==
  IF pairs = <<>> THEN und
  ELSE LET s == Head(pairs)[1]
           t == Head(pairs)[2]
           u1 == IF s \in DOMAIN und THEN [und EXCEPT ![s] = AddOrd(@, t)] ELSE und
       IN  addForward(u1, Tail(pairs))

RECURSIVE addBoth(_, _)
addBoth(und, pairs) ==
  IF pairs = <<>> THEN und
  ELSE LET s == Head(pairs)[1]
           t == Head(pairs)[2]
           u1 == IF s \in DOMAIN und THEN [und EXCEPT ![s] = AddOrd(@, t)] ELSE und
           u2 == IF t \in DOMAIN u1 THEN [u1 EXCEPT ![t] = AddOrd(@, s)] ELSE u1
       IN  addBoth(u2, Tail(pairs))

\* neighbours not yet visited are marked and queued, in neighbour order
RECURSIVE enqueue(_, _, _)
enqueue(neighbors, queue, visited) ==
  IF neighbors = <<>> THEN [queue |-> queue, visited |-> visited]
  ELSE IF Head(neighbors) \in visited
       THEN enqueue(Tail(neighbors), queue, visited)
       ELSE enqueue(Tail(neighbors), Append(queue, Head(neighbors)), visited \cup {Head(neighbors)})

\* the while loop of findClusters
RECURSIVE bfs(_, _, _, _)
bfs(queue, visited, cluster, und) ==
  IF queue = <<>> THEN [cluster |-> cluster, visited |-> visited]
  ELSE LET current == Head(queue)
           nbrs == IF current \in DOMAIN und THEN und[current] ELSE <<>>
           q == enqueue(nbrs, Tail(queue), visited)
       IN  bfs(q.queue, q.visited, Append(cluster, current), und)

\* the for loop of findClusters over the documents from index i on
RECURSIVE clustersFrom(_, _, _, _, _)
clustersFrom(i, paths, visited, clusters, und) ==
  IF i > Len(paths) THEN clusters
  ELSE IF paths[i] \in visited THEN clustersFrom(i + 1, paths, visited, clusters, und)
  ELSE LET r == bfs(<<paths[i]>>, visited \cup {paths[i]}, <<>>, und)
       IN  clustersFrom(i + 1, paths, r.visited, Append(clusters, r.cluster), und)

\* findClusters listing the clusters last-found first
findClustersReversed(paths, adj) ==
  LET found == clustersFrom(1, paths, {}, <<>>,
                            addBoth([p \in Range(paths) |-> <<>>], adjPairs(paths, adj)))
  IN  [c \in 1..Len(found) |-> found[Len(found) + 1 - c]]

findClusters(paths, adj) ==
  clustersFrom(1, paths, {}, <<>>,
               addBoth([p \in Range(paths) |-> <<>>], adjPairs(paths, adj)))

\* filteredAdj: the adjacency without the removed document
filteredAdj(adj, removed) ==
  [s \in (DOMAIN adj) \ {removed} |->
     LET Keep(t) == t /= removed IN SelectSeq(adj[s], Keep)]

\* remainingFiles
remainingPaths(paths, removed) ==
  LET Keep(p) == p /= removed IN SelectSeq(paths, Keep)

\* findBridges over every document, flagging any change of the cluster count
findBridgesAnyChange(paths, adj, originalClusters) ==
  IF Len(originalClusters) <= 1 /\ Len(paths) <= 1 THEN <<>>
  ELSE LET IsBridge(p) ==
             Len(findClusters(remainingPaths(paths, p), filteredAdj(adj, p)))
               /= Len(originalClusters)
       IN  SelectSeq(paths, IsBridge)

findBridges(paths, adj, originalClusters) ==
  IF Len(originalClusters) <= 1 /\ Len(paths) <= 1 THEN <<>>
  ELSE LET IsBridge(p) ==
             /\ Len(adj[p]) > 0
             /\ Len(findClusters(remainingPaths(paths, p), filteredAdj(adj, p)))
                  > Len(originalClusters)
       IN  SelectSeq(paths, IsBridge)

\* incomingCounts.entries(): one entry per document, in document order
incomingCounts(paths, es) ==
  [i \in 1..Len(paths) |->
     [id |-> paths[i],
      incomingLinks |-> Cardinality({k \in 1..Len(es) : es[k].target = paths[i]})]]

\* sort((a, b) => b[1] - a[1]): a stable insertion by incoming count
RECURSIVE sortByIncoming(_)
sortByIncoming(entries) ==
  IF entries = <<>> THEN <<>>
  ELSE LET sorted == sortByIncoming(SubSeq(entries, 1, Len(entries) - 1))
           c == entries[Len(entries)]
           n == Cardinality({i \in 1..Len(sorted) : sorted[i].incomingLinks >= c.incomingLinks})
       IN  SubSeq(sorted, 1, n) \o <<c>> \o SubSeq(sorted, n + 1, Len(sorted))

MAX_HUBS == 10

\* hubs without the slice(0, 10)
hubsUncapped(entries) ==
  LET Positive(e) == e.incomingLinks > 0
  IN  sortByIncoming(SelectSeq(entries, Positive))

\* filter(count > 0), sort, slice(0, 10)
hubs(entries) ==
  LET Positive(e) == e.incomingLinks > 0
      sorted == sortByIncoming(SelectSeq(entries, Positive))
  IN  SubSeq(sorted, 1, Min(MAX_HUBS, Len(sorted)))

analyzeGraph(fs) ==
  LET adj == graphAdjacency(fs)
      clusters == findClusters(Paths(fs), adj)
  IN  [ nodes |-> Paths(fs),
        edges |-> graphEdges(fs),
        hubs |-> hubs(incomingCounts(Paths(fs), graphEdges(fs))),
        clusters |-> clusters,
        bridges |-> findBridges(Paths(fs), adj, clusters) ]

(***************************************************************************)
(* fixers/links.ts                                                         *)
(***************************************************************************)
\* one row of the distance table: curr[0] = i, then curr[j] from prev and curr
\* levRow reading the substitution cost from prev[j] instead of prev[j - 1]
RECURSIVE levRowShifted(_, _, _, _)
levRowShifted(ch, b, prev, curr) ==
  IF Len(curr) = Len(b) + 1 THEN curr
  ELSE LET j == Len(curr)
           cost == IF ch = b[j] THEN 0 ELSE 1
       IN  levRowShifted(ch, b, prev,
                  Append(curr, Min(prev[j + 1] + 1, Min(curr[j] + 1, prev[j + 1] + cost))))

RECURSIVE levRow(_, _, _, _)
levRow(ch, b, prev, curr) ==
  IF Len(curr) = Len(b) + 1 THEN curr
  ELSE LET j == Len(curr)
           cost == IF ch = b[j] THEN 0 ELSE 1
       IN  levRow(ch, b, prev,
                  Append(curr, Min(prev[j + 1] + 1, Min(curr[j] + 1, prev[j] + cost))))

RECURSIVE levRows(_, _, _, _)
levRows(a, b, i, prev) ==
  IF i > Len(a) THEN prev[Len(b) + 1]
  ELSE levRows(a, b, i + 1, levRow(a[i], b, prev, <<i>>))

levenshtein(a, b) ==
  IF Len(a) = 0 THEN Len(b)
  ELSE IF Len(b) = 0 THEN Len(a)
  ELSE levRows(a, b, 1, [j \in 1..(Len(b) + 1) |-> j - 1])

\* s.replace(/\s+/g, " ")
RECURSIVE collapseSpaces(_)
collapseSpaces(s) ==
  IF s = <<>> THEN <<>>
  ELSE IF Head(s) \in Spaces
       THEN <<" ">> \o collapseSpaces(SubSeq(s, RunEnd(s, 1, Spaces), Len(s)))
       ELSE <<Head(s)>> \o collapseSpaces(Tail(s))

\* s.replace(/[-_]/g, " ")
dashesToSpaces(s) == [i \in 1..Len(s) |-> IF s[i] \in {"-", "_"} THEN " " ELSE s[i]]

normalize(name) == Trim(collapseSpaces(dashesToSpaces(ToLowerCase(name))))

NoMatch == <<"<null>">>

\* distance / maxLen < 0.4
THRESHOLD_NUM == 2
THRESHOLD_DEN == 5

\* the loop of findBestMatch from name i on
RECURSIVE bestMatchFrom(_, _, _, _, _)
bestMatchFrom(normTarget, fileNames, i, bestMatch, bestScore) ==
  IF i > Len(fileNames) THEN bestMatch
  ELSE LET normName == normalize(fileNames[i])
           distance == levenshtein(normTarget, normName)
           maxLen == Max(Len(normTarget), Len(normName))
       IN  IF normTarget = normName THEN fileNames[i]
           ELSE IF /\ distance * THRESHOLD_DEN < THRESHOLD_NUM * maxLen
                   /\ (bestScore < 0 \/ distance < bestScore)
                THEN bestMatchFrom(normTarget, fileNames, i + 1, fileNames[i], distance)
                ELSE bestMatchFrom(normTarget, fileNames, i + 1, bestMatch, bestScore)

\* bestScore starts at Infinity, written -1 here
findBestMatch(target, fileNames) ==
  bestMatchFrom(normalize(target), fileNames, 1, NoMatch, -1)

\* a value that passes `if (match)`
Truthy(v) == v /= NoMatch /\ v /= <<>>

\* the distinct elements of a sequence in order of first appearance
RECURSIVE Distinct(_)
Distinct(seq) ==
  IF seq = <<>> THEN <<>>
  ELSE AddOrd(Distinct(SubSeq(seq, 1, Len(seq) - 1)), seq[Len(seq)])

fileBaseNames(fs) == [i \in 1..Len(fs) |-> BasenameExt(fs[i].relativePath, MdExt)]

\* allBrokenTargets, in insertion order
allBrokenTargets(report) ==
  Distinct([i \in 1..Len(report.brokenLinks) |-> report.brokenLinks[i].target])

\* rewriteMap.get(target): the corrected name, or nothing
rewriteOf(target, fs) ==
  LET match == findBestMatch(target, fileBaseNames(fs))
  IN  IF Truthy(match) THEN match ELSE NoMatch

\* stubsToCreate holding every broken target, matched or not
stubsForAll(fs, report) == allBrokenTargets(report)

stubsToCreate(fs, report) ==
  LET IsStub(t) == ~Truthy(findBestMatch(t, fileBaseNames(fs)))
  IN  SelectSeq(allBrokenTargets(report), IsStub)

\* brokenBySource.get(source)
brokenTargetsOf(source, report) ==
  LET From(bl) == bl.source = source
      mine == SelectSeq(report.brokenLinks, From)
  IN  Distinct([i \in 1..Len(mine) |-> mine[i].target])

\* replaceLinksNoAlias dropping the alias of a rewritten link
RECURSIVE replaceLinksNoAlias(_, _, _, _)
replaceLinksNoAlias(content, i, target, corrected) ==
  IF i > Len(content) THEN <<>>
  ELSE LET open == <<"[", "[">> \o target
           j == i + Len(open)
           aliasEnd == IF j <= Len(content) /\ content[j] = "|"
                       THEN RunEndNot(content, j + 1, {"]"}) ELSE j
       IN  IF MatchesAt(content, i, open) /\ MatchesAt(content, j, <<"]", "]">>)
           THEN <<"[", "[">> \o corrected \o <<"]", "]">> \o
                replaceLinksNoAlias(content, j + 2, target, corrected)
           ELSE IF /\ MatchesAt(content, i, open)
                   /\ aliasEnd > j
                   /\ MatchesAt(content, aliasEnd, <<"]", "]">>)
                THEN <<"[", "[">> \o corrected \o <<"]", "]">> \o
                     replaceLinksNoAlias(content, aliasEnd + 2, target, corrected)
                ELSE <<content[i]>> \o replaceLinksNoAlias(content, i + 1, target, corrected)

\* content.replace(/\[\[target(\|[^\]]*)?\]\]/g, ...) from position i on
RECURSIVE replaceLinks(_, _, _, _)
replaceLinks(content, i, target, corrected) ==
  IF i > Len(content) THEN <<>>
  ELSE LET open == <<"[", "[">> \o target
           j == i + Len(open)
           aliasEnd == IF j <= Len(content) /\ content[j] = "|"
                       THEN RunEndNot(content, j + 1, {"]"}) ELSE j
       IN  IF MatchesAt(content, i, open) /\ MatchesAt(content, j, <<"]", "]">>)
           THEN <<"[", "[">> \o corrected \o <<"]", "]">> \o
                replaceLinks(content, j + 2, target, corrected)
           ELSE IF /\ MatchesAt(content, i, open)
                   /\ aliasEnd > j
                   /\ MatchesAt(content, aliasEnd, <<"]", "]">>)
                THEN <<"[", "[">> \o corrected \o SubSeq(content, j, aliasEnd - 1) \o <<"]", "]">> \o
                     replaceLinks(content, aliasEnd + 2, target, corrected)
                ELSE <<content[i]>> \o replaceLinks(content, i + 1, target, corrected)

\* the inner loop of the second pass: every matched target rewritten in turn
RECURSIVE rewriteAll(_, _, _)
rewriteAll(modified, targets, fs) ==
  IF targets = <<>> THEN modified
  ELSE LET corrected == rewriteOf(Head(targets), fs)
       IN  IF Truthy(corrected)
           THEN rewriteAll(replaceLinks(modified, 1, Head(targets), corrected), Tail(targets), fs)
           ELSE rewriteAll(modified, Tail(targets), fs)

Undefined == <<"<undefined>">>

fileByPath(path, fs) ==
  LET hits == {i \in 1..Len(fs) : fs[i].relativePath = path}
  IN  fs[CHOOSE i \in hits : \A j \in hits : i <= j]

rewriteAction(source, fs, report) ==
  LET sourceFile == fileByPath(source, fs)
      targets == brokenTargetsOf(source, report)
      IsRewritten(t) == Truthy(rewriteOf(t, fs))
      rewritten == SelectSeq(targets, IsRewritten)
  IN  [ category |-> "links",
        description |-> << [ text |-> "Rewrite broken wikilinks in", file |-> source,
                             names |-> [i \in 1..Len(rewritten) |->
                                          <<rewritten[i], rewriteOf(rewritten[i], fs)>>] ] >>,
        filePath |-> source,
        originalContent |-> sourceFile.content,
        newContent |-> rewriteAll(sourceFile.content, targets, fs),
        createContent |-> Undefined,
        isCreate |-> FALSE ]

\* createContent is `# ${target}\n\nTODO: Add content for ${target}.\n`
stubAction(target) ==
  [ category |-> "links",
    description |-> << [ text |-> "Create stub file for broken link target",
                         file |-> target \o MdExt, names |-> <<target>> ] >>,
    filePath |-> target \o MdExt,
    originalContent |-> Undefined,
    newContent |-> Undefined,
    createContent |->
      <<"#", " ">> \o target \o <<"\n", "\n", "T","O","D","O",":"," ","A","d","d"," ",
        "c","o","n","t","e","n","t"," ","f","o","r"," ">> \o target \o <<".", "\n">>,
    isCreate |-> TRUE ]

fixBrokenLinks(fs, report) ==
  LET HasSourceFile(src) == \E i \in 1..Len(fs) : fs[i].relativePath = src
      HasChanges(src) ==
        /\ HasSourceFile(src)
        /\ rewriteAll(fileByPath(src, fs).content, brokenTargetsOf(src, report), fs)
             /= fileByPath(src, fs).content
      brokenSources ==
        Distinct([i \in 1..Len(report.brokenLinks) |-> report.brokenLinks[i].source])
      changed == SelectSeq(brokenSources, HasChanges)
      stubs == stubsToCreate(fs, report)
  IN  [i \in 1..Len(changed) |-> rewriteAction(changed[i], fs, report)] \o
      [i \in 1..Len(stubs) |-> stubAction(stubs[i])]

(***************************************************************************)
(* fixers/orphans.ts                                                       *)
(***************************************************************************)
Dashes3 == <<"-", "-", "-">>

\* the front matter, when the text starts with one that is closed, removed
stripFrontmatter(text) ==
  IF MatchesAt(text, 1, Dashes3) /\ IndexOfSub(text, Dashes3, 4) > 0
  THEN SubSeq(text, IndexOfSub(text, Dashes3, 4) + 3, Len(text))
  ELSE text

AtLineStart(s, i) == i = 1 \/ s[i - 1] \in {"\n", "\r"}

\* text.replace(/^#+\s+/gm, "") from position i on
RECURSIVE stripHeadings(_, _)
stripHeadings(s, i) ==
  IF i > Len(s) THEN <<>>
  ELSE LET h == RunEnd(s, i, {"#"})
           w == RunEnd(s, h, Spaces)
       IN  IF AtLineStart(s, i) /\ h > i /\ w > h
           THEN stripHeadings(s, w)
           ELSE <<s[i]>> \o stripHeadings(s, i + 1)

\* text.replace(/\[\[([^\]|]+)(?:\|[^\]]+)?\]\]/g, "$1") from position i on
RECURSIVE unwrapWikilinks(_, _)
unwrapWikilinks(s, i) ==
  IF i > Len(s) THEN <<>>
  ELSE LET t == RunEndNot(s, i + 2, {"]", "|"})
           a == IF t <= Len(s) /\ s[t] = "|" THEN RunEndNot(s, t + 1, {"]"}) ELSE t
       IN  IF /\ MatchesAt(s, i, <<"[", "[">>)
              /\ t > i + 2
              /\ (a = t \/ a > t + 1)
              /\ MatchesAt(s, a, <<"]", "]">>)
           THEN SubSeq(s, i + 2, t - 1) \o unwrapWikilinks(s, a + 2)
           ELSE <<s[i]>> \o unwrapWikilinks(s, i + 1)

\* text.replace(/\[([^\]]*)\]\([^)]*\)/g, "$1") from position i on
RECURSIVE unwrapMarkdownLinks(_, _)
unwrapMarkdownLinks(s, i) ==
  IF i > Len(s) THEN <<>>
  ELSE LET t == RunEndNot(s, i + 1, {"]"})
           u == RunEndNot(s, t + 2, {")"})
       IN  IF /\ s[i] = "["
              /\ MatchesAt(s, t, <<"]", "(">>)
              /\ u <= Len(s)
           THEN SubSeq(s, i + 1, t - 1) \o unwrapMarkdownLinks(s, u + 1)
           ELSE <<s[i]>> \o unwrapMarkdownLinks(s, i + 1)

\* the backtick, one character of a text; so are "<en-dash>" and "<em-dash>"
Backtick == "<backtick>"
\* .replace(/[*_`~]/g, "").replace(/[-<en-dash><em-dash>]/g, " ")
stripFormatting(s) ==
  LET NotFormatting(c) == c \notin {"*", "_", Backtick, "~"}
      kept == SelectSeq(s, NotFormatting)
  IN  [i \in 1..Len(kept) |-> IF kept[i] \in {"-", "<en-dash>", "<em-dash>"} THEN " " ELSE kept[i]]

\* text.split(/\s+/)
RECURSIVE splitWords(_, _)
splitWords(s, i) ==
  IF i > Len(s) THEN <<<<>>>>
  ELSE LET e == RunEndNot(s, i, Spaces)
           n == RunEnd(s, e, Spaces)
       IN  IF e > Len(s) THEN <<SubSeq(s, i, Len(s))>>
           ELSE <<SubSeq(s, i, e - 1)>> \o splitWords(s, n)

extractKeywords(content) ==
  LET stopWords ==
        {
          <<"t","h","i","s">>, <<"t","h","a","t">>, <<"w","i","t","h">>,
          <<"f","r","o","m">>, <<"h","a","v","e">>, <<"b","e","e","n">>,
          <<"w","i","l","l">>, <<"w","o","u","l","d">>, <<"c","o","u","l","d">>,
          <<"s","h","o","u","l","d">>, <<"t","h","e","i","r">>, <<"t","h","e","r","e">>,
          <<"h","e","r","e">>, <<"w","h","e","n">>, <<"w","h","a","t">>,
          <<"w","h","i","c","h">>, <<"a","b","o","u","t">>, <<"i","n","t","o">>,
          <<"t","h","r","o","u","g","h">>, <<"d","u","r","i","n","g">>, <<"b","e","f","o","r","e">>,
          <<"a","f","t","e","r">>, <<"a","b","o","v","e">>, <<"b","e","l","o","w">>,
          <<"b","e","t","w","e","e","n">>, <<"s","o","m","e">>, <<"m","o","s","t">>,
          <<"o","t","h","e","r">>, <<"t","h","a","n">>, <<"t","h","e","n">>,
          <<"j","u","s","t">>, <<"a","l","s","o">>, <<"m","o","r","e">>,
          <<"v","e","r","y">>, <<"m","u","c","h">>, <<"s","u","c","h">>,
          <<"e","a","c","h">>, <<"e","v","e","r","y">>, <<"b","o","t","h">>,
          <<"m","a","n","y">>, <<"l","i","k","e">>, <<"o","v","e","r">>,
          <<"o","n","l","y">>, <<"m","a","k","e">>, <<"m","a","d","e">>,
          <<"d","o","e","s">>, <<"d","o","n","e">>, <<"b","e","i","n","g">>,
          <<"t","h","e","s","e">>, <<"t","h","o","s","e">>, <<"t","h","e","m">>,
          <<"t","h","e","y">>, <<"w","e","r","e">>, <<"y","o","u","r">>,
          <<"f","i","l","e">>, <<"f","i","l","e","s">>, <<"l","i","n","k">>,
          <<"l","i","n","k","s">>, <<"n","o","t","e">>, <<"n","o","t","e","s">>,
          <<"p","a","g","e">>, <<"c","o","n","t","e","n","t">> }
      text == stripFormatting(unwrapMarkdownLinks(unwrapWikilinks(
                stripHeadings(stripFrontmatter(content), 1), 1), 1))
      raw == splitWords(text, 1)
      IsAlnum(c) ==
        c \in UpperLetters \cup LowerLetters \cup {"0","1","2","3","4","5","6","7","8","9"}
      words == [i \in 1..Len(raw) |-> ToLowerCase(SelectSeq(raw[i], IsAlnum))]
      Keep(w) == Len(w) > 3 /\ w \notin stopWords
  IN  Distinct(SelectSeq(words, Keep))

\* the end of a heading that may be followed by blanks up to the end of a line:
\* the longest run of white space after e that stops at a line end, 0 if none
headingLineEnd(s, e) ==
  LET ends == {j \in e..RunEnd(s, e, Spaces) : j > Len(s) \/ s[j] \in {"\n", "\r"}}
  IN  IF ends = {} THEN 0 ELSE CHOOSE j \in ends : \A x \in ends : x <= j

\* the positions after "#" or "##" and at least one blank, from a line start i
headingTextStart(s, i) ==
  LET h == IF MatchesAt(s, i, <<"#", "#">>) THEN i + 2
           ELSE IF MatchesAt(s, i, <<"#">>) THEN i + 1 ELSE 0
      w == RunEnd(s, h, Spaces)
  IN  IF AtLineStart(s, i) /\ h > 0 /\ w > h THEN w ELSE 0

\* the end of "See\s+[Aa]lso", "Related" or "References" at position t, 0 if none
seeAlsoTitleEnd(s, t) ==
  LET w == RunEnd(s, t + 3, Spaces)
  IN  IF MatchesAt(s, t, <<"S","e","e">>) /\ w > t + 3
         /\ (MatchesAt(s, w, <<"A","l","s","o">>) \/ MatchesAt(s, w, <<"a","l","s","o">>))
      THEN w + 4
      ELSE IF MatchesAt(s, t, <<"R","e","l","a","t","e","d">>) THEN t + 7
      ELSE IF MatchesAt(s, t, <<"R","e","f","e","r","e","n","c","e","s">>) THEN t + 10
      ELSE 0

\* the match of /^(##?\s+TITLE)\s*$/m starting at i: the position after it, 0 if none
seeAlsoMatchEnd(s, i) ==
  LET t == headingTextStart(s, i)
      e == IF t > 0 THEN seeAlsoTitleEnd(s, t) ELSE 0
  IN  IF e > 0 THEN headingLineEnd(s, e) ELSE 0

notesMatchEnd(s, i) ==
  LET t == headingTextStart(s, i)
      e == IF t > 0 /\ MatchesAt(s, t, <<"N","o","t","e","s">>) THEN t + 5 ELSE 0
  IN  IF e > 0 THEN headingLineEnd(s, e) ELSE 0

\* the first match of /\n##?\s+/ in rest: the index of its "\n", 0 if none
nextSectionIndex(rest) ==
  LET hits == {i \in 1..Len(rest) :
                 /\ rest[i] = "\n"
                 /\ \/ (MatchesAt(rest, i + 1, <<"#", "#">>) /\ i + 3 <= Len(rest) /\ rest[i + 3] \in Spaces)
                    \/ (MatchesAt(rest, i + 1, <<"#">>) /\ i + 2 <= Len(rest) /\ rest[i + 2] \in Spaces)}
  IN  IF hits = {} THEN 0 ELSE CHOOSE i \in hits : \A x \in hits : i <= x

\* the insertion below a heading whose matched text is content[m .. mEnd - 1]
insertBelow(content, m, mEnd, item) ==
  LET matched == SubSeq(content, m, mEnd - 1)
      idx == IndexOfSub(content, matched, 1)
      afterHeader == idx + Len(matched)
      rest == SubSeq(content, afterHeader, Len(content))
      n == nextSectionIndex(rest)
      insertPoint == afterHeader + n - 1
  IN  IF n > 0
      THEN SubSeq(content, 1, insertPoint - 1) \o <<"\n">> \o item \o
           SubSeq(content, insertPoint, Len(content))
      ELSE TrimEnd(content) \o <<"\n">> \o item \o <<"\n">>

firstMatchStart(content, MatchEnd(_, _)) ==
  LET hits == {i \in 1..Len(content) : MatchEnd(content, i) > 0}
  IN  IF hits = {} THEN 0 ELSE CHOOSE i \in hits : \A x \in hits : i <= x

insertWikilink(content, targetName) ==
  LET link == <<"[", "[">> \o targetName \o <<"]", "]">>
      sa == firstMatchStart(content, seeAlsoMatchEnd)
      nt == firstMatchStart(content, notesMatchEnd)
  IN  IF IncludesSub(content, link) THEN content
      ELSE IF sa > 0
           THEN insertBelow(content, sa, seeAlsoMatchEnd(content, sa), <<"-", " ">> \o link)
      ELSE IF nt > 0
           THEN insertBelow(content, nt, notesMatchEnd(content, nt),
                            <<"-"," ","S","e","e"," ","a","l","s","o",":"," ">> \o link)
      ELSE TrimEnd(content) \o
           <<"\n","\n","#","#"," ","S","e","e"," ","a","l","s","o","\n","\n","-"," ">> \o
           link \o <<"\n">>

MIN_ORPHAN_WORDS == 10

\* the candidate already links to the orphan
alreadyLinks(candidate, orphanNameLower) ==
  \E k \in 1..Len(candidate.wikilinks) : ToLowerCase(candidate.wikilinks[k]) = orphanNameLower

\* the score of a candidate, multiplied by the number of the orphan's keywords
scaledScore(candidate, orphanName, orphanKeywords) ==
  LET orphanNameLower == ToLowerCase(orphanName)
      candidateContent == ToLowerCase(candidate.content)
      orphanNorm == dashesToSpaces(orphanNameLower)
      candidateKeywords == Range(extractKeywords(candidate.content))
      keywordMatches == Cardinality({k \in 1..Len(orphanKeywords) :
                                       orphanKeywords[k] \in candidateKeywords})
      nameScore == IF IncludesSub(candidateContent, orphanNameLower) THEN 10 ELSE 0
      normScore == IF orphanNorm /= orphanNameLower /\ IncludesSub(candidateContent, orphanNorm)
                   THEN 8 ELSE 0
  IN  (nameScore + normScore) * Len(orphanKeywords) + keywordMatches * 5

SCORE_THRESHOLD == 2

sortByScoreUnsorted(cands) == cands

\* candidates.sort((a, b) => b.score - a.score): a stable insertion by score
RECURSIVE sortByScore(_)
sortByScore(cands) ==
  IF cands = <<>> THEN <<>>
  ELSE LET sorted == sortByScore(SubSeq(cands, 1, Len(cands) - 1))
           c == cands[Len(cands)]
           n == Cardinality({i \in 1..Len(sorted) : sorted[i].score >= c.score})
       IN  SubSeq(sorted, 1, n) \o <<c>> \o SubSeq(sorted, n + 1, Len(sorted))

MAX_CANDIDATES == 2

RECURSIVE concatAll(_)
concatAll(seqs) == IF seqs = <<>> THEN <<>> ELSE Head(seqs) \o concatAll(Tail(seqs))

\* the documents that are no orphans and do not link to the orphan yet
openCandidates(fs, report, orphanNameLower) ==
  LET NotOrphan(f) == f.relativePath \notin Range(report.orphanFiles)
      NotLinked(c) == ~alreadyLinks(c, orphanNameLower)
  IN  SelectSeq(SelectSeq(fs, NotOrphan), NotLinked)

\* the candidates of an orphan, each with its scaled score
scoredCandidates(orphanName, kws, fs, report) ==
  \* if (score > 2) candidates.push(...)
  LET open == openCandidates(fs, report, ToLowerCase(orphanName))
      scored == [i \in 1..Len(open) |->
                   [file |-> open[i], score |-> scaledScore(open[i], orphanName, kws)]]
      Passes(c) == c.score > SCORE_THRESHOLD * Len(kws)
  IN  SelectSeq(scored, Passes)

topCandidates(orphanName, kws, fs, report) ==
  IF kws = <<>> THEN <<>>
  ELSE \* candidates.slice(0, 2), the documents only
       LET sorted == sortByScore(scoredCandidates(orphanName, kws, fs, report))
       IN  [i \in 1..Min(MAX_CANDIDATES, Len(sorted)) |-> sorted[i].file]

orphanAction(candidate, orphanName, newContent) ==
  [ category |-> "orphans",
    description |-> << [ text |-> "Add link to orphan", file |-> candidate.relativePath,
                         names |-> <<orphanName>> ] >>,
    filePath |-> candidate.relativePath,
    originalContent |-> candidate.content,
    newContent |-> newContent,
    createContent |-> Undefined,
    isCreate |-> FALSE ]

candidateActionsAlways(candidate, orphanName, newContent) ==
  <<orphanAction(candidate, orphanName, newContent)>>

\* if (newContent !== candidate.content) actions.push(...)
candidateActions(candidate, orphanName, newContent) ==
  IF newContent = candidate.content THEN <<>>
  ELSE <<orphanAction(candidate, orphanName, newContent)>>

actionsForTop(tops, orphanName) ==
  concatAll([i \in 1..Len(tops) |->
               candidateActions(tops[i], orphanName, insertWikilink(tops[i].content, orphanName))])

orphanActionsFor(orphan, fs, report) ==
  actionsForTop(topCandidates(BasenameExt(orphan.relativePath, MdExt),
                              extractKeywords(orphan.content), fs, report),
                BasenameExt(orphan.relativePath, MdExt))

fixOrphans(fs, report) ==
  LET Fixable(f) ==
        f.relativePath \in Range(report.orphanFiles) /\ f.wordCount >= MIN_ORPHAN_WORDS
      todo == SelectSeq(fs, Fixable)
  IN  concatAll([i \in 1..Len(todo) |-> orphanActionsFor(todo[i], fs, report)])

(***************************************************************************)
(* fixers/isolated.ts                                                      *)
(***************************************************************************)
\* name.replace(/([a-z])([A-Z])/g, "$1 $2")
RECURSIVE camelSplit(_)
camelSplit(name) ==
  IF Len(name) < 2 THEN name
  ELSE IF name[1] \in LowerLetters /\ name[2] \in UpperLetters
       THEN <<name[1], " ">> \o camelSplit(Tail(name))
       ELSE <<name[1]>> \o camelSplit(Tail(name))

MIN_VARIANT_LENGTH == 3

nameVariants(name) ==
  LET lower == ToLowerCase(name)
      LongEnough(v) == Len(v) >= MIN_VARIANT_LENGTH
  IN  SelectSeq(Distinct(<<lower, dashesToSpaces(lower), ToLowerCase(camelSplit(name))>>),
                LongEnough)

Blank(n) == [i \in 1..n |-> " "]

\* the front matter replaced by blanks of the same length
blankFrontmatter(text) ==
  IF MatchesAt(text, 1, Dashes3) /\ IndexOfSub(text, Dashes3, 4) > 0
  THEN Blank(IndexOfSub(text, Dashes3, 4) + 2) \o
       SubSeq(text, IndexOfSub(text, Dashes3, 4) + 3, Len(text))
  ELSE text

\* text.replace(/\[\[[^\]]+\]\]/g, blanks) from position i on
RECURSIVE blankWikilinks(_, _)
blankWikilinks(s, i) ==
  IF i > Len(s) THEN <<>>
  ELSE LET t == RunEndNot(s, i + 2, {"]"})
       IN  IF MatchesAt(s, i, <<"[", "[">>) /\ t > i + 2 /\ MatchesAt(s, t, <<"]", "]">>)
           THEN Blank(t + 2 - i) \o blankWikilinks(s, t + 2)
           ELSE <<s[i]>> \o blankWikilinks(s, i + 1)

\* text.replace(/```[\s\S]*?```/g, blanks) from position i on
RECURSIVE blankFences(_, _)
blankFences(s, i) ==
  IF i > Len(s) THEN <<>>
  ELSE LET Fence == <<Backtick, Backtick, Backtick>>
           close == IndexOfSub(s, Fence, i + 3)
       IN  IF MatchesAt(s, i, Fence) /\ close > 0
           THEN Blank(close + 3 - i) \o blankFences(s, close + 3)
           ELSE <<s[i]>> \o blankFences(s, i + 1)

\* text.replace(/`[^`]+`/g, blanks) from position i on
RECURSIVE blankInlineCode(_, _)
blankInlineCode(s, i) ==
  IF i > Len(s) THEN <<>>
  ELSE LET t == RunEndNot(s, i + 1, {Backtick})
       IN  IF s[i] = Backtick /\ t > i + 1 /\ t <= Len(s)
           THEN Blank(t + 1 - i) \o blankInlineCode(s, t + 1)
           ELSE <<s[i]>> \o blankInlineCode(s, i + 1)

followedByBoundary(text, q) == q > Len(text) \/ text[q] \in Spaces \cup {".", ",", ";", ":", "!", "?", ")", "\"", "'"}

\* the variant matches with the text start as its leading boundary
matchesAtTextStart(text, p, variant) ==
  p = 1 /\ MatchesAt(text, 1, variant) /\ followedByBoundary(text, 1 + Len(variant))

\* the variant matches after a leading boundary character at p
matchesAfterBoundary(text, p, variant) ==
  /\ p <= Len(text)
  /\ text[p] \in Spaces \cup {".", ",", ";", ":", "!", "?", "(", "\"", "'"}
  /\ MatchesAt(text, p + 1, variant)
  /\ followedByBoundary(text, p + 1 + Len(variant))

\* the regex.exec loop: the positions of the variant from lastIndex on
RECURSIVE variantPositions(_, _, _)
variantPositions(text, variant, lastIndex) ==
  LET starts == {p \in lastIndex..Len(text) :
                   matchesAtTextStart(text, p, variant) \/ matchesAfterBoundary(text, p, variant)}
      p == CHOOSE x \in starts : \A y \in starts : x <= y
  IN  IF starts = {} THEN <<>>
      ELSE IF matchesAtTextStart(text, p, variant)
           THEN <<p>> \o variantPositions(text, variant, p + Len(variant))
           ELSE <<p + 1>> \o variantPositions(text, variant, p + 1 + Len(variant))

\* findMentions(content, name).positions, 1-based
findMentions(content, name) ==
  LET text == ToLowerCase(blankInlineCode(blankFences(blankWikilinks(
                blankFrontmatter(content), 1), 1), 1))
      variants == nameVariants(name)
  IN  concatAll([v \in 1..Len(variants) |-> variantPositions(text, variants[v], 1)])

\* the text at the position that spells the name or one of its variants
matchedTextAt(modified, firstPos, name) ==
  LET forms == <<name>> \o nameVariants(name)
      Spells(v) == /\ firstPos + Len(v) - 1 <= Len(modified)
                   /\ ToLowerCase(SubSeq(modified, firstPos, firstPos + Len(v) - 1)) = ToLowerCase(v)
      hits == {k \in 1..Len(forms) : Spells(forms[k])}
      first == CHOOSE k \in hits : \A x \in hits : k <= x
  IN  IF hits = {} THEN <<>>
      ELSE SubSeq(modified, firstPos, firstPos + Len(forms[first]) - 1)

\* the mention at firstPos replaced by a wikilink, unless it is inside one
spliceLink(modified, name, firstPos, matchedText) ==
  LET before == SubSeq(modified, Max(1, firstPos - 2), firstPos - 1)
      after == SubSeq(modified, firstPos + Len(matchedText),
                      Min(Len(modified), firstPos + Len(matchedText) + 1))
      replacement == IF matchedText = name THEN <<"[", "[">> \o name \o <<"]", "]">>
                     ELSE <<"[", "[">> \o name \o <<"|">> \o matchedText \o <<"]", "]">>
  IN  IF matchedText = <<>> THEN modified
      ELSE IF before = <<"[", "[">> \/ after = <<"]", "]">> THEN modified
      ELSE SubSeq(modified, 1, firstPos - 1) \o replacement \o
           SubSeq(modified, firstPos + Len(matchedText), Len(modified))

\* the body of the loop over knownNames for one name: the content afterwards
linkFirstMention(modified, name, positions) ==
  IF positions = <<>> THEN modified
  ELSE spliceLink(modified, name, positions[1], matchedTextAt(modified, positions[1], name))

MIN_NAME_LENGTH == 3

knownNames(fs) ==
  LET Known(f) == Len(BasenameExt(f.relativePath, MdExt)) >= MIN_NAME_LENGTH
      known == SelectSeq(fs, Known)
  IN  [i \in 1..Len(known) |->
         [name |-> BasenameExt(known[i].relativePath, MdExt),
          relativePath |-> known[i].relativePath]]

\* one turn of the loop over knownNames, given the content after it
addLinked(state, n, selfPath, next) ==
  IF n.relativePath = selfPath \/ next = state.modified THEN state
  ELSE [modified |-> next, addedLinks |-> Append(state.addedLinks, n.name)]

\* the loop over knownNames: the content and the names linked so far
RECURSIVE linkMentions(_, _, _)
linkMentions(state, names, selfPath) ==
  IF names = <<>> THEN state
  ELSE linkMentions(addLinked(state, Head(names), selfPath,
                              linkFirstMention(state.modified, Head(names).name,
                                               findMentions(state.modified, Head(names).name))),
                    Tail(names), selfPath)

MIN_ISOLATED_WORDS == 5

isolatedAction(file, result) ==
  [ category |-> "isolated",
    description |-> << [ text |-> "Add wikilinks to isolated file", file |-> file.relativePath,
                         names |-> result.addedLinks ] >>,
    filePath |-> file.relativePath,
    originalContent |-> file.content,
    newContent |-> result.modified,
    createContent |-> Undefined,
    isCreate |-> FALSE ]

\* the body of the loop over files: the action of one document, if any
isolatedActionsFor(file, quality, result) ==
  IF /\ file.relativePath \in Range(quality.isolatedFiles)
     /\ file.wordCount >= MIN_ISOLATED_WORDS
     /\ result.addedLinks /= <<>>
     /\ result.modified /= file.content
  THEN <<isolatedAction(file, result)>>
  ELSE <<>>

fixIsolated(fs, quality) ==
  concatAll([i \in 1..Len(fs) |->
     isolatedActionsFor(fs[i], quality,
       linkMentions([modified |-> fs[i].content, addedLinks |-> <<>>], knownNames(fs),
                    fs[i].relativePath))])

(***************************************************************************)
(* analyzers/quality.ts: the documents without wikilinks                   *)
(***************************************************************************)
analyzeQuality(fs) ==
  LET Isolated(f) == Len(f.wikilinks) = 0
  IN  [isolatedFiles |-> Paths(SelectSeq(fs, Isolated))]

(***************************************************************************)
(* fixers/index.ts                                                         *)
(***************************************************************************)
\* the --only option left out
NoCategory == "<undefined>"

generatedActionsUnfiltered(fs, report, quality, category) ==
  fixBrokenLinks(fs, report) \o fixOrphans(fs, report) \o fixIsolated(fs, quality)

\* the actions pushed by the sub-strategies, in generation order
generatedActions(fs, report, quality, category) ==
  (IF category \in {NoCategory, "links"} THEN fixBrokenLinks(fs, report) ELSE <<>>) \o
  (IF category \in {NoCategory, "orphans"} THEN fixOrphans(fs, report) ELSE <<>>) \o
  (IF category \in {NoCategory, "isolated"} THEN fixIsolated(fs, quality) ELSE <<>>)

\* the loop over fileActions: the content after the actions from k on
RECURSIVE chainContent(_, _, _)
chainContent(content, fileActions, k) ==
  IF k > Len(fileActions) THEN content
  ELSE IF fileActions[k].newContent /= Undefined /\ fileActions[k].newContent /= <<>>
       THEN chainContent(fileActions[k].newContent, fileActions, k + 1)
       ELSE chainContent(content, fileActions, k + 1)

mergeFileActions(filePath, fileActions) ==
  IF Len(fileActions) = 1 THEN fileActions[1]
  ELSE [ category |-> fileActions[1].category,
         description |-> concatAll([k \in 1..Len(fileActions) |-> fileActions[k].description]),
         filePath |-> filePath,
         originalContent |-> fileActions[1].originalContent,
         newContent |-> chainContent(fileActions[1].originalContent, fileActions, 1),
         createContent |-> Undefined,
         isCreate |-> FALSE ]

deduplicateActionsCreatesFirst(actions) ==
  LET IsCreate(a) == a.isCreate
      IsModify(a) == ~a.isCreate
      creates == SelectSeq(actions, IsCreate)
      modifies == SelectSeq(actions, IsModify)
      byFile == Distinct([i \in 1..Len(modifies) |-> modifies[i].filePath])
      ActionsOf(fp) == LET Same(a) == a.filePath = fp IN SelectSeq(modifies, Same)
  IN  creates \o [i \in 1..Len(byFile) |-> mergeFileActions(byFile[i], ActionsOf(byFile[i]))]

deduplicateActions(actions) ==
  LET IsCreate(a) == a.isCreate
      IsModify(a) == ~a.isCreate
      creates == SelectSeq(actions, IsCreate)
      modifies == SelectSeq(actions, IsModify)
      byFile == Distinct([i \in 1..Len(modifies) |-> modifies[i].filePath])
      ActionsOf(fp) == LET Same(a) == a.filePath = fp IN SelectSeq(modifies, Same)
  IN  [i \in 1..Len(byFile) |-> mergeFileActions(byFile[i], ActionsOf(byFile[i]))] \o creates

CountWhere(seq, P(_)) == Cardinality({i \in 1..Len(seq) : P(seq[i])})

planOfAllModified(actions) ==
  LET IsLinks(a) == a.category = "links"
      IsOrphans(a) == a.category = "orphans"
      IsIsolated(a) == a.category = "isolated"
      Creates(a) == a.isCreate
  IN  [ actions |-> actions,
        summary |-> [ totalFixes |-> Len(actions),
                      linkFixes |-> CountWhere(actions, IsLinks),
                      orphanFixes |-> CountWhere(actions, IsOrphans),
                      isolatedFixes |-> CountWhere(actions, IsIsolated),
                      filesToModify |-> Len(actions),
                      filesToCreate |-> CountWhere(actions, Creates) ] ]

\* the plan returned for the deduplicated actions
planOf(actions) ==
  LET IsLinks(a) == a.category = "links"
      IsOrphans(a) == a.category = "orphans"
      IsIsolated(a) == a.category = "isolated"
      Creates(a) == a.isCreate
      Modifies(a) == ~a.isCreate
  IN  [ actions |-> actions,
        summary |-> [ totalFixes |-> Len(actions),
                      linkFixes |-> CountWhere(actions, IsLinks),
                      orphanFixes |-> CountWhere(actions, IsOrphans),
                      isolatedFixes |-> CountWhere(actions, IsIsolated),
                      filesToModify |-> CountWhere(actions, Modifies),
                      filesToCreate |-> CountWhere(actions, Creates) ] ]

generateFixPlan(fs, report, quality, category) ==
  planOf(deduplicateActions(generatedActions(fs, report, quality, category)))

PromptError == "<promptFn rejected>"
WriteError == "<mkdir or writeFile failed>"

\* if (options.interactive && options.promptFn)
prompts(options) == options.interactive /\ options.promptFn

\* the action reaches mkdir/writeFile: isCreate, or newContent !== undefined
writes(action) == action.isCreate \/ action.newContent /= Undefined

applyActionSilent(result, action, options, prompt, write) ==
  IF prompts(options) /\ prompt = "throws"
  THEN result
  ELSE IF prompts(options) /\ prompt = "no"
  THEN [result EXCEPT !.actionsSkipped = @ + 1]
  ELSE IF writes(action) /\ write = "fails"
  THEN [result EXCEPT !.errors = Append(@, [action |-> action, error |-> WriteError])]
  ELSE [result EXCEPT !.actionsApplied = @ + 1]

\* the body of the loop over plan.actions for one action: prompt is what promptFn
\* does ("yes", "no", "throws"), write what mkdir and writeFile do ("ok", "fails")
applyAction(result, action, options, prompt, write) ==
  IF prompts(options) /\ prompt = "throws"
  THEN [result EXCEPT !.errors = Append(@, [action |-> action, error |-> PromptError])]
  ELSE IF prompts(options) /\ prompt = "no"
  THEN [result EXCEPT !.actionsSkipped = @ + 1]
  ELSE IF writes(action) /\ write = "fails"
  THEN [result EXCEPT !.errors = Append(@, [action |-> action, error |-> WriteError])]
  ELSE [result EXCEPT !.actionsApplied = @ + 1]

\* what the iteration writes to the vault
written(action, options, prompt, write) ==
  IF (prompts(options) => prompt = "yes") /\ writes(action) /\ write = "ok"
  THEN << [ filePath |-> action.filePath,
            content |-> IF action.isCreate THEN action.createContent ELSE action.newContent ] >>
  ELSE <<>>

(***************************************************************************)
(* Vaults: the document list handed over by the scanner, built one         *)
(* document and one link at a time.                                        *)
(***************************************************************************)
\* the documents of the link-repair vaults, as the scanner hands them over:
\*   Alpha.md: "A"
\*   one.md: "[[Alpa]] x [[Alpa|al]] [[Zed]]"
\*   two.md: "[[Zed|z]] [[Alpa]]"
\*   Zen.md: "z"
RewriteDocuments ==
  { [ relativePath |-> <<"A","l","p","h","a",".","m","d">>,
      content |->
        <<"A">>,
      wikilinks |-> <<>>,
      wordCount |-> 1 ],
    [ relativePath |-> <<"o","n","e",".","m","d">>,
      content |->
        <<"[","[","A","l","p","a","]","]"," ","x"," ","[","[","A","l","p","a","|","a","l","]","]"," ","[","[","Z","e","d","]","]">>,
      wikilinks |-> <<<<"A","l","p","a">>, <<"A","l","p","a">>, <<"Z","e","d">>>>,
      wordCount |-> 4 ],
    [ relativePath |-> <<"t","w","o",".","m","d">>,
      content |->
        <<"[","[","Z","e","d","|","z","]","]"," ","[","[","A","l","p","a","]","]">>,
      wikilinks |-> <<<<"Z","e","d">>, <<"A","l","p","a">>>>,
      wordCount |-> 2 ],
    [ relativePath |-> <<"Z","e","n",".","m","d">>,
      content |->
        <<"z">>,
      wikilinks |-> <<>>,
      wordCount |-> 1 ] }

Init ==
  /\ files = <<>>
  /\ pc = "scan"
  /\ linkReport = NoReport
  /\ graphData = NoReport
  /\ fixPlan = NoReport
  /\ only = NoCategory
  /\ args = <<>>
  /\ returned = NoReport
  /\ disk = <<>>
  /\ answers = <<>>
  /\ debounce = NoReport
  /\ now = 0
  /\ watchLog = <<>>

\* a direct call of an exported function: the arguments are drawn from a pool
InitCall(pool) ==
  /\ files = <<>>
  /\ pc = "call"
  /\ linkReport = NoReport
  /\ graphData = NoReport
  /\ fixPlan = NoReport
  /\ only = NoCategory
  /\ args \in pool
  /\ returned = NoReport
  /\ disk = <<>>
  /\ answers = <<>>
  /\ debounce = NoReport
  /\ now = 0
  /\ watchLog = <<>>

\* the scanner finds one more document
AddFile(pathPool, maxFiles) ==
  /\ pc = "scan"
  /\ Len(files) < maxFiles
  /\ \E p \in pathPool :
       /\ p \notin Range(Paths(files))
       /\ files' = Append(files, [relativePath |-> p, wikilinks |-> <<>>])
  /\ UNCHANGED <<pc, linkReport, graphData, fixPlan, only, args, returned, disk, answers,
               debounce, now, watchLog>>

\* the scanner extracts one more wikilink from the document it is reading
AddLink(linkPool, maxLinks) ==
  /\ pc = "scan"
  /\ files /= <<>>
  /\ Len(Occurrences(files)) < maxLinks
  /\ \E l \in linkPool :
       files' = [files EXCEPT ![Len(files)].wikilinks = Append(@, l)]
  /\ UNCHANGED <<pc, linkReport, graphData, fixPlan, only, args, returned, disk, answers,
               debounce, now, watchLog>>

RunAnalyzeLinks ==
  /\ pc = "scan"
  /\ linkReport' = analyzeLinks(files)
  /\ pc' = "links"
  /\ UNCHANGED <<files, graphData, fixPlan, only, args, returned, disk, answers,
               debounce, now, watchLog>>

RunAnalyzeGraph ==
  /\ pc = "scan"
  /\ graphData' = analyzeGraph(files)
  /\ pc' = "graph"
  /\ UNCHANGED <<files, linkReport, fixPlan, only, args, returned, disk, answers,
               debounce, now, watchLog>>

\* the scanner finds one more document of the repair vault
AddDocument(pool, maxFiles) ==
  /\ pc = "scan"
  /\ Len(files) < maxFiles
  /\ \E d \in pool :
       /\ d.relativePath \notin Range(Paths(files))
       /\ files' = Append(files, d)
  /\ UNCHANGED <<pc, linkReport, graphData, fixPlan, only, args, returned, disk, answers,
               debounce, now, watchLog>>

\* the scanner finds the next document of the chain vault a, b, ...: it links to
\* the document before it and, from e on, possibly to e
AddHubDocument(maxFiles) ==
  LET HubNames == <<"a", "b", "c", "d", "e", "f", "g", "h", "i", "j", "k", "l", "m">> IN
  /\ pc = "scan"
  /\ Len(files) < Min(maxFiles, Len(HubNames))
  /\ \E extra \in {<<>>} \cup (IF Len(files) >= 4 THEN {<< <<"e">> >>} ELSE {}) :
       files' = Append(files,
                  [relativePath |-> <<HubNames[Len(files) + 1]>> \o MdExt,
                   wikilinks |-> (IF files = <<>> THEN <<>>
                                  ELSE << <<HubNames[Len(files)]>> >>) \o extra])
  /\ UNCHANGED <<pc, linkReport, graphData, fixPlan, only, args, returned, disk, answers,
               debounce, now, watchLog>>

RunLevenshtein ==
  /\ pc = "call"
  /\ returned' = levenshtein(args[1], args[2])
  /\ pc' = "done"
  /\ UNCHANGED <<files, linkReport, graphData, fixPlan, only, args, disk, answers,
               debounce, now, watchLog>>

RunFindBestMatch ==
  /\ pc = "call"
  /\ returned' = findBestMatch(args[1], args[2])
  /\ pc' = "done"
  /\ UNCHANGED <<files, linkReport, graphData, fixPlan, only, args, disk, answers,
               debounce, now, watchLog>>

\* the fix command without --apply: runScan, then generateFixPlan
FixCommand ==
  /\ pc = "scan"
  /\ \E category \in {NoCategory, "links", "orphans", "isolated"} :
       /\ only' = category
       /\ fixPlan' = generateFixPlan(files, analyzeLinks(files), analyzeQuality(files), category)
  /\ linkReport' = analyzeLinks(files)
  /\ graphData' = analyzeGraph(files)
  /\ pc' = "plan"
  /\ UNCHANGED <<files, args, returned, disk, answers,
               debounce, now, watchLog>>

\* the fix command, after the plan: applyFixPlan is called; without apply it
\* returns the fresh result at once
ApplyFixPlan ==
  /\ pc = "plan"
  /\ \E apply, interactive, promptFn \in BOOLEAN :
       LET options == [apply |-> apply, interactive |-> interactive, promptFn |-> promptFn]
       IN  /\ args' = [plan |-> fixPlan, options |-> options]
           /\ returned' = [ plan |-> fixPlan, applied |-> apply, actionsApplied |-> 0,
                            actionsSkipped |-> 0, errors |-> <<>> ]
           /\ pc' = IF apply /\ fixPlan.actions /= <<>> THEN "apply" ELSE "applied"
  /\ UNCHANGED <<files, linkReport, graphData, fixPlan, only, disk, answers,
               debounce, now, watchLog>>

\* one iteration of the loop of applyFixPlan, for the next action of the plan
ApplyAction ==
  /\ pc = "apply"
  /\ Len(answers) < Len(args.plan.actions)
  /\ LET action == args.plan.actions[Len(answers) + 1]
     IN  \E prompt \in IF prompts(args.options) THEN {"yes", "no", "throws"} ELSE {"none"} :
           \E write \in IF prompt \in {"yes", "none"} /\ writes(action)
                         THEN {"ok", "fails"} ELSE {"none"} :
             /\ returned' = applyAction(returned, action, args.options, prompt, write)
             /\ disk' = disk \o written(action, args.options, prompt, write)
             /\ answers' = Append(answers, [action |-> action, prompt |-> prompt,
                                            write |-> write])
  /\ pc' = IF Len(answers) + 1 = Len(args.plan.actions) THEN "applied" ELSE "apply"
  /\ UNCHANGED <<files, linkReport, graphData, fixPlan, only, args,
               debounce, now, watchLog>>

(***************************************************************************)
(* reporters/doctor.ts, cache.ts and the doctor command of cli.ts          *)
(*                                                                         *)
(* A scan result holds the arrays and numbers the report reads.  A message *)
(* is the sequence of the parts of its template literal; a number stands   *)
(* for its decimal notation.                                               *)
(***************************************************************************)
calculateScore(result) ==
  LET s1 == 100 - Len(result.staleness.staleCoreFiles) * 10
      s2 == s1 - Min(Len(result.staleness.staleFiles) * 2, 20)
      s3 == s2 - Min(Len(result.staleness.dailyLogGaps) * 3, 15)
      s4 == s3 - Len(result.links.brokenLinks) * 5
      s5 == s4 - Min(Len(result.links.orphanFiles) * 2, 15)
      \* connectivityScore < 0.5
      s6 == IF 2 * result.links.connectivityScore.num < result.links.connectivityScore.den
            THEN s5 - 10 ELSE s5
      s7 == s6 - Min(Len(result.quality.stubs) * 2, 10)
      s8 == s7 - Min(Len(result.quality.oversized) * 3, 10)
      s9 == s8 - Len(result.quality.duplicates) * 5
      b1 == IF result.staleness.dailyLogStreak >= 7 THEN s9 + 5 ELSE s9
      \* connectivityScore >= 0.8
      b2 == IF 5 * result.links.connectivityScore.num >= 4 * result.links.connectivityScore.den
            THEN b1 + 5 ELSE b1
      b3 == IF result.quality.selfReview /= NoReport
               /\ result.quality.selfReview.hits > result.quality.selfReview.misses
            THEN b2 + 5 ELSE b2
  IN  Max(0, Min(100, b3))

\* NoReport stands for null and for an absent selfReview
generateDoctorReport(result, previousScan) ==
  LET score == calculateScore(result)
      grade == IF score >= 90 THEN "A" ELSE IF score >= 80 THEN "B"
               ELSE IF score >= 70 THEN "C" ELSE IF score >= 60 THEN "D" ELSE "F"
      core == result.staleness.staleCoreFiles
      broken == result.links.brokenLinks
      duplicates == result.quality.duplicates
      connectivity == result.links.connectivityScore
      \* (connectivityScore * 100).toFixed(0)
      percent == (200 * connectivity.num + connectivity.den) \div (2 * connectivity.den)
      pushed ==
        [i \in 1..Len(core) |->
           [severity |-> "critical",
            message |-> <<"Core file ", core[i].path, " hasn't been updated in ",
                          core[i].daysSinceUpdate, " days">>,
            fix |-> <<"Review and update ", core[i].path, " to reflect current state">>]]
        \o (IF Len(broken) > 0
            THEN << [severity |-> "critical",
                     message |-> <<Len(broken), " broken wikilink(s) found">>,
                     fix |-> <<"Create missing files or fix link targets: ",
                               [i \in 1..Min(3, Len(broken)) |-> broken[i].target]>>] >>
            ELSE <<>>)
        \o (IF Len(duplicates) > 0
            THEN << [severity |-> "warning",
                     message |-> <<Len(duplicates), " duplicate file(s) detected">>,
                     fix |-> <<"Review and consolidate: ",
                               [i \in 1..Len(duplicates) |-> duplicates[i].file2]>>] >>
            ELSE <<>>)
        \o (IF Len(result.staleness.dailyLogGaps) > 0
            THEN << [severity |-> "warning",
                     message |-> <<Len(result.staleness.dailyLogGaps), " gap(s) in daily logs">>,
                     fix |-> <<"Ensure daily logs are written consistently">>] >>
            ELSE <<>>)
        \o (IF Len(result.links.orphanFiles) > 3
            THEN << [severity |-> "warning",
                     message |-> <<Len(result.links.orphanFiles),
                                   " orphan files not linked from anywhere">>,
                     fix |-> <<"Add wikilinks to orphan files from relevant documents">>] >>
            ELSE <<>>)
        \o (IF Len(result.quality.stubs) > 3
            THEN << [severity |-> "info",
                     message |-> <<Len(result.quality.stubs), " stub files with <50 words">>,
                     fix |-> <<"Flesh out stub files with more content or remove if unnecessary">>] >>
            ELSE <<>>)
        \o (IF Len(result.quality.isolatedFiles) > 3
            THEN << [severity |-> "info",
                     message |-> <<Len(result.quality.isolatedFiles),
                                   " files contain no wikilinks">>,
                     fix |-> <<"Add cross-references to connect isolated knowledge">>] >>
            ELSE <<>>)
        \o (IF 2 * connectivity.num < connectivity.den
            THEN << [severity |-> "warning",
                     message |-> <<"Low connectivity score: ", percent, "%">>,
                     fix |-> <<"Increase cross-linking between files to improve knowledge navigation">>] >>
            ELSE <<>>)
      \* issues.sort by severityOrder: the sort is stable
      IsCritical(i) == i.severity = "critical"
      IsWarning(i) == i.severity = "warning"
      IsInfo(i) == i.severity = "info"
      issues == SelectSeq(pushed, IsCritical) \o SelectSeq(pushed, IsWarning)
                \o SelectSeq(pushed, IsInfo)
      previousIssueMessages ==
        IF previousScan = NoReport THEN {}
        ELSE {previousScan.issues[i].message : i \in 1..Len(previousScan.issues)}
      currentIssueMessages == {issues[i].message : i \in 1..Len(issues)}
  IN  [ grade |-> grade,
        score |-> score,
        issues |-> issues,
        comparison |->
          IF previousScan = NoReport THEN NoReport
          ELSE [ previousScore |-> previousScan.score,
                 scoreDelta |-> score - previousScan.score,
                 newIssues |-> Cardinality(currentIssueMessages \ previousIssueMessages),
                 resolvedIssues |-> Cardinality(previousIssueMessages \ currentIssueMessages) ] ]

\* the directory .vault-mind of a vault is the sequence of the files in it:
\* empty, or last-scan.json alone
loadLastScan(cacheDir) == IF cacheDir = <<>> THEN NoReport ELSE cacheDir[1]

\* scanDate, the wall clock at the time of the call, is read nowhere
saveScan(cacheDir, score, issues) == << [score |-> score, issues |-> issues] >>

doctorActionSaveFirst(cacheDir, result) ==
  LET first == generateDoctorReport(result, NoReport)
      saved == saveScan(cacheDir, first.score, first.issues)
  IN  [report |-> generateDoctorReport(result, loadLastScan(saved)), cacheDir |-> saved]

\* the handler of the doctor command, after runScan: the report it prints and
\* the cache directory it leaves
doctorAction(cacheDir, result) ==
  LET previousScan == loadLastScan(cacheDir)
      report == generateDoctorReport(result, previousScan)
  IN  [report |-> report, cacheDir |-> saveScan(cacheDir, report.score, report.issues)]

\* one run of the doctor command on the vault as it is at that time
DoctorCommand(scans) ==
  /\ pc \in {"scan", "doctor"}
  /\ \E result \in scans :
       LET done == doctorAction(disk, result)
       IN  /\ args' = result
           /\ returned' = done.report
           /\ disk' = done.cacheDir
  /\ pc' = "doctor"
  /\ UNCHANGED <<files, linkReport, graphData, fixPlan, only, answers,
               debounce, now, watchLog>>

(***************************************************************************)
(* The watch command of cli.ts                                             *)
(*                                                                         *)
(* now is the clock in milliseconds; debounce is the variable of that name,*)
(* NoReport for null, else the timer it refers to with the time it is due  *)
(* and whether it is still pending (a timer that ran or was cleared is not *)
(* pending); watchLog records the events the watcher delivered and the     *)
(* scans the timers started.  <<>> stands for a null or empty filename.    *)
(***************************************************************************)
DEBOUNCE_MS == 1000

\* the callback passing every event with a filename
watchedAny(filename) == filename /= <<>>

\* the two early returns of the callback are not taken
watched(filename) ==
  /\ ~(filename = <<>>
       \/ StartsWith(filename, <<".","v","a","u","l","t","-","m","i","n","d">>))
  /\ EndsWith(filename, MdExt)

\* the watcher delivers a change event: the callback of fs.watch
WatchEvent(filenames) ==
  /\ pc \in {"scan", "watch"}
  /\ Len(SelectSeq(watchLog, LAMBDA e : e.kind = "event")) < MaxEvents
  /\ now + DEBOUNCE_MS <= MaxTicks * TICK_MS
  /\ \E filename \in filenames :
       /\ debounce' = IF watched(filename)
                      THEN [due |-> now + DEBOUNCE_MS, filename |-> filename, pending |-> TRUE]
                      ELSE debounce
       /\ watchLog' = Append(watchLog, [kind |-> "event", at |-> now, filename |-> filename])
  /\ pc' = "watch"
  /\ UNCHANGED <<files, linkReport, graphData, fixPlan, only, args, returned, disk, answers, now>>

\* the timer runs its callback, no earlier than it is due: the re-scan starts;
\* it prints the grade and the critical issues and writes nothing
DebounceFires ==
  /\ pc = "watch"
  /\ debounce /= NoReport
  /\ debounce.pending
  /\ now >= debounce.due
  /\ debounce' = [debounce EXCEPT !.pending = FALSE]
  /\ watchLog' = Append(watchLog, [kind |-> "scan", at |-> now, filename |-> debounce.filename])
  /\ UNCHANGED <<files, pc, linkReport, graphData, fixPlan, only, args, returned, disk, answers,
                 now>>

\* time passes
Tick ==
  /\ pc = "watch"
  /\ now < MaxTicks * TICK_MS
  /\ now' = now + TICK_MS
  /\ UNCHANGED <<files, pc, linkReport, graphData, fixPlan, only, args, returned, disk, answers,
                 debounce, watchLog>>

(***************************************************************************)
(* Properties of analyzeLinks                                              *)
(***************************************************************************)
Count(seq, x) == Cardinality({i \in 1..Len(seq) : seq[i] = x})

\* the part of a link before its first '#' (the whole link without one)
SectionStripped(link) == IF Includes(link, "#") THEN FilePart(link) ELSE link

\* the names a link refers to: section suffix stripped, lower-cased, plus the
\* basename for a path-style target
ReferredNames(link) ==
  LET n == SectionStripped(link)
  IN  {ToLowerCase(n)} \cup
      (IF Includes(n, "/") THEN {ToLowerCase(Basename(StripMd(n)))} ELSE {})

NamesOf(f) ==
  { ToLowerCase(BasenameExt(f.relativePath, MdExt)), ToLowerCase(StripMd(f.relativePath)) }

ReferencedByOther(i) ==
  \E j \in 1..Len(files) : j /= i /\
     \E k \in 1..Len(files[j].wikilinks) :
        ReferredNames(files[j].wikilinks[k]) \cap NamesOf(files[i]) /= {}

\* C1: a document is in orphanFiles iff no OTHER document has a link whose
\* normalized target is its lower-cased basename or extension-less path; the
\* document's own links (self-link, self-section link) do not count.
C1_OrphanIffNoInbound ==
  pc = "links" =>
    \A i \in 1..Len(files) :
       (files[i].relativePath \in Range(linkReport.orphanFiles)) <=> ~ReferencedByOther(i)

\* C5: orphanFiles is the disjoint union of structuralOrphans and
\* knowledgeOrphans, structural iff the path starts with an expected-sparse
\* directory, and the lengths add up.
C5_OrphanSplit ==
  pc = "links" =>
    /\ Range(linkReport.structuralOrphans) \cap Range(linkReport.knowledgeOrphans) = {}
    /\ Range(linkReport.structuralOrphans) \cup Range(linkReport.knowledgeOrphans)
         = Range(linkReport.orphanFiles)
    /\ \A p \in Range(linkReport.orphanFiles) :
         /\ Count(linkReport.structuralOrphans, p) + Count(linkReport.knowledgeOrphans, p) = 1
         /\ (p \in Range(linkReport.structuralOrphans)) <=>
              \E dir \in STRUCTURAL_DIRS : StartsWith(SlashNormalize(p), SlashNormalize(dir))
    /\ Len(linkReport.orphanFiles)
         = Len(linkReport.structuralOrphans) + Len(linkReport.knowledgeOrphans)

C5_Witness ==
  /\ pc = "links"
  /\ linkReport.structuralOrphans /= <<>>
  /\ linkReport.knowledgeOrphans /= <<>>

NonStructuralDocs == {i \in 1..Len(files) : ~isStructuralPath(files[i].relativePath)}

\* a ratio r equals a / b (b > 0), or 0 when b = 0
IsQuotient(r, a, b) ==
  /\ r.den > 0
  /\ IF b = 0 THEN r.num = 0 ELSE r.num * b = a * r.den

\* C6: both scores lie in [0, 1]; connectivityScore = (documents - orphans) /
\* documents, knowledgeConnectivity = (non-structural documents - knowledge
\* orphans) / non-structural documents, and a score is 0 when its denominator is 0.
C6_ScoresInRange ==
  pc = "links" =>
    /\ 0 <= linkReport.connectivityScore.num
    /\ linkReport.connectivityScore.num <= linkReport.connectivityScore.den
    /\ 0 <= linkReport.knowledgeConnectivity.num
    /\ linkReport.knowledgeConnectivity.num <= linkReport.knowledgeConnectivity.den
    /\ IsQuotient(linkReport.connectivityScore,
                  Len(files) - Len(linkReport.orphanFiles), Len(files))
    /\ IsQuotient(linkReport.knowledgeConnectivity,
                  Cardinality(NonStructuralDocs) - Len(linkReport.knowledgeOrphans),
                  Cardinality(NonStructuralDocs))

C6_Witness ==
  /\ pc = "links"
  /\ Len(files) = 2
  /\ Cardinality(NonStructuralDocs) = 1
  /\ Len(linkReport.orphanFiles) = 2
  /\ linkReport.knowledgeConnectivity.num = 0

\* the documents with one link occurrence replaced by another text
WithLink(i, k, text) == [files EXCEPT ![i].wikilinks[k] = text]

\* the link text alone would be reported broken in document i, position k
BrokenAlone(i, k, text) ==
  [source |-> files[i].relativePath, target |-> text]
     \in Range(analyzeLinks(WithLink(i, k, text)).brokenLinks)

ReportedBroken(i, k) ==
  [source |-> files[i].relativePath, target |-> files[i].wikilinks[k]]
     \in Range(linkReport.brokenLinks)

StripExtension(s) == IF EndsWith(ToLowerCase(s), MdExt) THEN SubSeq(s, 1, Len(s) - 3) ELSE s

\* a document exists at the relative path, compared case-insensitively, with or
\* without the .md extension
DocumentAt(path) ==
  \E i \in 1..Len(files) :
     ToLowerCase(files[i].relativePath) \in {ToLowerCase(path), ToLowerCase(path) \o MdExt}

PathStyleEntries(i, link) ==
  {n \in 1..Len(linkReport.pathStyleLinks) :
     /\ linkReport.pathStyleLinks[n].source = files[i].relativePath
     /\ linkReport.pathStyleLinks[n].target = link}

LinkPositions(i, link) == {k \in 1..Len(files[i].wikilinks) : files[i].wikilinks[k] = link}

\* C8 (resolution): a link whose file part contains '/' resolves iff a document
\* exists at that relative path, and is then listed once per occurrence in
\* pathStyleLinks; a link without '/' is never listed.
C8_PathStyleResolution ==
  pc = "links" =>
    \A i \in 1..Len(files) : \A k \in 1..Len(files[i].wikilinks) :
       LET link == files[i].wikilinks[k]
           F == SectionStripped(link)
       IN  IF Includes(F, "/")
           THEN /\ ~ReportedBroken(i, k) <=> DocumentAt(F)
                /\ ~ReportedBroken(i, k) =>
                     Cardinality(PathStyleEntries(i, link)) = Cardinality(LinkPositions(i, link))
           ELSE PathStyleEntries(i, link) = {}

\* C8: as above, and every listed entry suggests the target's basename with
\* the extension stripped.
C8_PathStyleLinks ==
  /\ C8_PathStyleResolution
  /\ pc = "links" =>
       \A n \in 1..Len(linkReport.pathStyleLinks) :
          linkReport.pathStyleLinks[n].suggestedName
            = StripExtension(Basename(SectionStripped(linkReport.pathStyleLinks[n].target)))

(***************************************************************************)
(* Properties of analyzeGraph                                              *)
(***************************************************************************)
Nodes == Range(graphData.nodes)

EdgeSet == {<<graphData.edges[i].source, graphData.edges[i].target>> :
              i \in 1..Len(graphData.edges)}

Linked(a, b, E) == <<a, b>> \in E \/ <<b, a>> \in E

\* the documents connected to a set of documents by edges of E inside N
RECURSIVE Reach(_, _, _)
Reach(S, N, E) ==
  LET S2 == S \cup {n \in N : \E m \in S : Linked(m, n, E)}
  IN  IF S2 = S THEN S ELSE Reach(S2, N, E)

Components(N, E) == {Reach({n}, N, E) : n \in N}

Without(E, p) == {e \in E : e[1] /= p /\ e[2] /= p}

HasAnyEdge(p) == \E e \in EdgeSet : e[1] = p \/ e[2] = p

CutDocuments ==
  {p \in Nodes : /\ HasAnyEdge(p)
                 /\ Cardinality(Components(Nodes \ {p}, Without(EdgeSet, p)))
                      > Cardinality(Components(Nodes, EdgeSet))}

\* C2: bridges is exactly the set of documents with at least one edge
\* (incoming or outgoing) whose removal leaves strictly more components.
C2_BridgesExact ==
  pc = "graph" => Range(graphData.bridges) = CutDocuments

\* C3: clusters partition the documents into the connected components of the
\* undirected edge relation; no edges gives one cluster per document, and a
\* graph linking every pair of documents gives one cluster.
C3_ClustersPartition ==
  pc = "graph" =>
    /\ \A p \in Nodes :
         Cardinality({<<c, k>> \in (1..Len(graphData.clusters)) \X (1..Len(files)) :
                        k <= Len(graphData.clusters[c]) /\ graphData.clusters[c][k] = p}) = 1
    /\ \A c \in 1..Len(graphData.clusters) : Range(graphData.clusters[c]) \subseteq Nodes
    /\ \A p \in Nodes : \A q \in Nodes :
         (\E c \in 1..Len(graphData.clusters) :
             p \in Range(graphData.clusters[c]) /\ q \in Range(graphData.clusters[c]))
           <=> q \in Reach({p}, Nodes, EdgeSet)
    /\ graphData.edges = <<>> => Len(graphData.clusters) = Len(files)
    /\ (Nodes /= {} /\ \A p \in Nodes : \A q \in Nodes : p /= q => Linked(p, q, EdgeSet))
         => Len(graphData.clusters) = 1

C3_Witness ==
  /\ pc = "graph"
  /\ Len(graphData.clusters) = 2
  /\ \E c \in 1..2 : Len(graphData.clusters[c]) = 3
  /\ \E e \in EdgeSet : \E i \in 1..Len(files) : \E j \in 1..Len(files) :
        i < j /\ files[i].relativePath = e[2] /\ files[j].relativePath = e[1]

\* C9: a document without edges is never a bridge.
C9_NoEdgeNoBridge ==
  pc = "graph" => \A p \in Nodes : ~HasAnyEdge(p) => p \notin Range(graphData.bridges)

C9_Witness ==
  /\ pc = "graph"
  /\ graphData.bridges /= <<>>
  /\ \E p \in Nodes : ~HasAnyEdge(p)

InDegree(p) == Cardinality({i \in 1..Len(graphData.edges) : graphData.edges[i].target = p})

DocIndex(p) == CHOOSE i \in 1..Len(files) : files[i].relativePath = p

\* document p ranks before document q: more incoming edges, or as many and earlier
RanksBefore(p, q) ==
  \/ InDegree(p) > InDegree(q)
  \/ InDegree(p) = InDegree(q) /\ DocIndex(p) < DocIndex(q)

HubIds == {graphData.hubs[i].id : i \in 1..Len(graphData.hubs)}

Targeted == {p \in Nodes : InDegree(p) >= 1}

\* C11: hubs lists only documents with in-degree >= 1, by in-degree descending
\* with ties in document order, holds the min(10, number of such documents)
\* highest-ranked ones, and each incomingLinks is the number of edges targeting
\* the document.
C11_HubsRanked ==
  pc = "graph" =>
    /\ \A i \in 1..Len(graphData.hubs) :
         /\ graphData.hubs[i].id \in Targeted
         /\ graphData.hubs[i].incomingLinks = InDegree(graphData.hubs[i].id)
    /\ \A i \in 1..Len(graphData.hubs) : \A j \in 1..Len(graphData.hubs) :
         i < j => RanksBefore(graphData.hubs[i].id, graphData.hubs[j].id)
    /\ Len(graphData.hubs) = (IF Cardinality(Targeted) < 10 THEN Cardinality(Targeted) ELSE 10)
    /\ \A p \in Targeted \ HubIds : \A h \in HubIds : RanksBefore(h, p)

C11_Witness ==
  /\ pc = "graph"
  /\ Cardinality(Targeted) > 10
  /\ Len(graphData.hubs) = 10
  /\ DocIndex(graphData.hubs[1].id) > 1
  /\ \E i \in 1..9 : graphData.hubs[i].incomingLinks = graphData.hubs[i + 1].incomingLinks

LowerName(f) == ToLowerCase(BasenameExt(f.relativePath, MdExt))

EdgeCount(src, dst) ==
  Cardinality({i \in 1..Len(graphData.edges) :
                 graphData.edges[i].source = src /\ graphData.edges[i].target = dst})

EdgesFrom(src) ==
  Cardinality({i \in 1..Len(graphData.edges) : graphData.edges[i].source = src})

EdgesWellFormed ==
  \A i \in 1..Len(graphData.edges) :
     /\ graphData.edges[i].source /= graphData.edges[i].target
     /\ graphData.edges[i].source \in Nodes
     /\ graphData.edges[i].target \in Nodes

IsLastNamed(j, name) ==
  /\ LowerName(files[j]) = name
  /\ \A m \in 1..Len(files) : LowerName(files[m]) = name => m <= j

Generated == generatedActions(files, linkReport, analyzeQuality(files), only)

\* the generated actions that modify the document at a path, in generation order
ModifiesOf(fp) ==
  LET Hits(a) == ~a.isCreate /\ a.filePath = fp
  IN  SelectSeq(Generated, Hits)

\* the paths for which the sub-strategies produced several modifying actions
MergedPaths ==
  {fp \in {Generated[i].filePath : i \in 1..Len(Generated)} : Len(ModifiesOf(fp)) > 1}

PlanActionsFor(fp) ==
  {i \in 1..Len(fixPlan.actions) :
     ~fixPlan.actions[i].isCreate /\ fixPlan.actions[i].filePath = fp}

HasLinkTo(content, name) ==
  \/ IncludesSub(content, <<"[", "[">> \o name \o <<"]", "]">>)
  \/ IncludesSub(content, <<"[", "[">> \o name \o <<"|">>)

\* the content shows what the action does: no link left that the action rewrites,
\* a link to the orphan, a link to every mentioned document
EffectPresent(a, content) ==
  CASE a.category = "links" ->
         rewriteAll(content, brokenTargetsOf(a.filePath, linkReport), files) = content
    [] a.category = "orphans" ->
         HasLinkTo(content, a.description[1].names[1])
    [] a.category = "isolated" ->
         \A k \in 1..Len(a.description[1].names) :
            HasLinkTo(content, a.description[1].names[k])

\* C4: when the sub-strategies produce several modifying actions for one document,
\* the plan holds one action for it, whose newContent contains the effect of every
\* one of them and whose description is their descriptions concatenated.
C4_MergedContainsEveryEffect ==
  pc = "plan" =>
    \A fp \in MergedPaths :
      /\ Cardinality(PlanActionsFor(fp)) = 1
      /\ \A i \in PlanActionsFor(fp) :
           /\ fixPlan.actions[i].description =
                concatAll([k \in 1..Len(ModifiesOf(fp)) |-> ModifiesOf(fp)[k].description])
           /\ \A k \in 1..Len(ModifiesOf(fp)) :
                EffectPresent(ModifiesOf(fp)[k], fixPlan.actions[i].newContent)

\* the merged action keeps the description of every constituent action
C4_DescriptionsOnly ==
  pc = "plan" =>
    \A fp \in MergedPaths :
      \A i \in PlanActionsFor(fp) :
        fixPlan.actions[i].description =
          concatAll([k \in 1..Len(ModifiesOf(fp)) |-> ModifiesOf(fp)[k].description])

C4_SomeMerge == pc = "plan" /\ MergedPaths /= {}

(***************************************************************************)
(* Further properties of analyzeLinks                                      *)
(***************************************************************************)
\* link k of document j is reported broken and names document i by its
\* normalized form or its path-style basename
BrokenReference(j, k, i) ==
  /\ j /= i
  /\ ReportedBroken(j, k)
  /\ LowerName(files[i]) \in ReferredNames(files[j].wikilinks[k])

\* C12: a document named by a link of another document is not an orphan, even
\* when that link is itself reported broken.
C12_BrokenLinkStillCounts ==
  pc = "links" =>
    \A i \in 1..Len(files) : \A j \in 1..Len(files) : \A k \in 1..Len(files[j].wikilinks) :
       BrokenReference(j, k, i) => files[i].relativePath \notin Range(linkReport.orphanFiles)

\* a document whose only references are broken links of another document
C12_Witness ==
  /\ pc = "links"
  /\ \E i \in 1..Len(files) :
        /\ \E j \in 1..Len(files) : \E k \in 1..Len(files[j].wikilinks) : BrokenReference(j, k, i)
        /\ \A j \in 1..Len(files) : \A k \in 1..Len(files[j].wikilinks) :
              ReferredNames(files[j].wikilinks[k]) \cap NamesOf(files[i]) /= {}
                => ReportedBroken(j, k)

\* the link resolves: an empty file part before '#', a document's basename or
\* extension-less path (case-insensitively), or a document at the written path
Resolves(link) ==
  LET F == SectionStripped(link)
  IN  \/ Includes(link, "#") /\ F = <<>>
      \/ \E i \in 1..Len(files) : ToLowerCase(F) \in NamesOf(files[i])
      \/ Includes(F, "/") /\ DocumentAt(F)

\* the unresolved link occurrences from link k of document i on, in document
\* order and then link order
RECURSIVE UnresolvedFrom(_, _)
UnresolvedFrom(i, k) ==
  IF i > Len(files) THEN <<>>
  ELSE IF k > Len(files[i].wikilinks) THEN UnresolvedFrom(i + 1, 1)
  ELSE (IF Resolves(files[i].wikilinks[k]) THEN <<>>
        ELSE <<[source |-> files[i].relativePath, target |-> files[i].wikilinks[k]]>>)
       \o UnresolvedFrom(i, k + 1)

\* C13: brokenLinks holds one {source, target} entry per unresolved link
\* occurrence, the target being the raw link text, in document order and then
\* link order; analyzeLinks completes on every document set.
C13_BrokenLinksExact ==
  /\ pc = "links" => linkReport.brokenLinks = UnresolvedFrom(1, 1)
  /\ pc = "scan" => ENABLED RunAnalyzeLinks

\* an unresolved section link written twice in one document
C13_Witness ==
  /\ pc = "links"
  /\ \E n \in 1..(Len(linkReport.brokenLinks) - 1) :
        /\ linkReport.brokenLinks[n] = linkReport.brokenLinks[n + 1]
        /\ Includes(linkReport.brokenLinks[n].target, "#")

(***************************************************************************)
(* Properties of levenshtein and findBestMatch                             *)
(***************************************************************************)
EditUniverse == UNION {[1..n -> {"a", "b"}] : n \in 0..MaxLevLen}

DropAt(s, i) == SubSeq(s, 1, i - 1) \o SubSeq(s, i + 1, Len(s))

\* t is s after one insertion, one deletion or one substitution
OneEdit(s, t) ==
  \/ Len(t) = Len(s) /\ Cardinality({i \in 1..Len(s) : s[i] /= t[i]}) = 1
  \/ Len(t) = Len(s) + 1 /\ \E i \in 1..Len(t) : DropAt(t, i) = s
  \/ Len(s) = Len(t) + 1 /\ \E i \in 1..Len(s) : DropAt(s, i) = t

\* the least number of single-character edits leading from a string of S to b
RECURSIVE EditsFrom(_, _, _)
EditsFrom(S, b, n) ==
  IF b \in S THEN n
  ELSE EditsFrom(S \cup {t \in EditUniverse : \E s \in S : OneEdit(s, t)}, b, n + 1)

\* C14: levenshtein(a, b) is the minimum number of single-character insertions,
\* deletions and substitutions turning a into b; it is 0 on equal strings, the
\* length of the other string when one is empty, and 3 for kitten and sitting.
C14_LevenshteinIsEditDistance ==
  pc = "done" =>
    /\ (args[1] \in EditUniverse /\ args[2] \in EditUniverse)
          => returned = EditsFrom({args[1]}, args[2], 0)
    /\ args[1] = args[2] => returned = 0
    /\ args[1] = <<>> => returned = Len(args[2])
    /\ args[2] = <<>> => returned = Len(args[1])
    /\ (args[1] = <<"k","i","t","t","e","n">> /\ args[2] = <<"s","i","t","t","i","n","g">>)
          => returned = 3

\* a pair that needs a deletion and a substitution
C14_Witness ==
  /\ pc = "done"
  /\ Len(args[1]) = 3
  /\ Len(args[2]) = 2
  /\ returned = 2

\* the edit distance and the longer length of the normalized target and name i
NameDistance(i) == levenshtein(normalize(args[1]), normalize(args[2][i]))

NameMaxLen(i) == Max(Len(normalize(args[1])), Len(normalize(args[2][i])))

\* distance / max(len) < 0.4
ClearsThreshold(i) == 10 * NameDistance(i) < 4 * NameMaxLen(i)

ExactNames == {i \in 1..Len(args[2]) : normalize(args[2][i]) = normalize(args[1])}

FuzzyNames == {i \in 1..Len(args[2]) : ClearsThreshold(i)}

\* C15: a name equal to the target after normalization when there is
\* one; otherwise the name of least distance / max(len) if that ratio is below
\* 0.4; otherwise no match.
C15_ClosestByRatio ==
  pc = "done" =>
    IF ExactNames /= {} THEN \E i \in ExactNames : returned = args[2][i]
    ELSE IF FuzzyNames /= {}
         THEN \E i \in FuzzyNames :
                /\ returned = args[2][i]
                /\ \A j \in 1..Len(args[2]) :
                     NameDistance(i) * NameMaxLen(j) <= NameDistance(j) * NameMaxLen(i)
         ELSE returned = NoMatch

\* the selection findBestMatch makes: a name equal to the target after
\* normalization when there is one; otherwise, among the names whose distance /
\* max(len) is below 0.4, the first in list order of least edit distance;
\* otherwise no match.
FirstOfLeastDistance ==
  pc = "done" =>
    IF ExactNames /= {} THEN \E i \in ExactNames : returned = args[2][i]
    ELSE IF FuzzyNames /= {}
         THEN \E i \in FuzzyNames :
                /\ returned = args[2][i]
                /\ \A j \in FuzzyNames :
                     \/ NameDistance(i) < NameDistance(j)
                     \/ NameDistance(i) = NameDistance(j) /\ i <= j
         ELSE returned = NoMatch

(***************************************************************************)
(* Properties of fixBrokenLinks (fix --only links)                         *)
(***************************************************************************)
BrokenTargets == {linkReport.brokenLinks[i].target : i \in 1..Len(linkReport.brokenLinks)}

KnownNames == [i \in 1..Len(files) |-> BasenameExt(files[i].relativePath, MdExt)]

Unmatched(t) == findBestMatch(t, KnownNames) = NoMatch

StubActions(t) ==
  {i \in 1..Len(fixPlan.actions) :
     fixPlan.actions[i].isCreate /\ fixPlan.actions[i].filePath = t \o MdExt}

\* the targets the rewrite actions announce as rewritten
RewrittenTargets ==
  UNION { {fixPlan.actions[i].description[1].names[k][1] :
             k \in 1..Len(fixPlan.actions[i].description[1].names)} :
          i \in {n \in 1..Len(fixPlan.actions) : ~fixPlan.actions[n].isCreate} }

\* C16: each distinct broken target gets exactly one repair: a stub action iff
\* findBestMatch finds no candidate, one stub per unmatched target however many
\* documents contain it, and no target both rewritten and stubbed.
C16_RewriteOrStub ==
  (pc = "plan" /\ only = "links") =>
    /\ \A t \in BrokenTargets :
         /\ Cardinality(StubActions(t)) = (IF Unmatched(t) THEN 1 ELSE 0)
         /\ Unmatched(t) <=> t \notin RewrittenTargets
    /\ \A i \in 1..Len(fixPlan.actions) :
         fixPlan.actions[i].isCreate =>
           \E t \in BrokenTargets : Unmatched(t) /\ fixPlan.actions[i].filePath = t \o MdExt

\* an unmatched target written in two documents next to a matched one
C16_Witness ==
  /\ pc = "plan"
  /\ only = "links"
  /\ \E t \in BrokenTargets :
        /\ Unmatched(t)
        /\ Cardinality({i \in 1..Len(linkReport.brokenLinks) :
                          linkReport.brokenLinks[i].target = t}) >= 3
        /\ Cardinality({linkReport.brokenLinks[i].source : i \in 1..Len(linkReport.brokenLinks)}) = 2
  /\ \E t \in BrokenTargets : ~Unmatched(t)

\* the matched broken targets of a source document
MatchedTargetsOf(fp) ==
  {linkReport.brokenLinks[i].target : i \in {n \in 1..Len(linkReport.brokenLinks) :
       linkReport.brokenLinks[n].source = fp /\ ~Unmatched(linkReport.brokenLinks[n].target)}}

\* the content from position i on, each link span [[T]] or [[T|alias]] with T a
\* matched broken target of the document rewritten to the matched name, every
\* other character copied
RECURSIVE WithLinksRewritten(_, _, _)
WithLinksRewritten(content, i, fp) ==
  IF i > Len(content) THEN <<>>
  ELSE LET close == RunEndNot(content, i + 2, {"]"})
           inner == SubSeq(content, i + 2, close - 1)
           bar == IndexOf(inner, "|")
           head == IF bar = 0 THEN inner ELSE SubSeq(inner, 1, bar - 1)
           alias == IF bar = 0 THEN <<>> ELSE SubSeq(inner, bar, Len(inner))
       IN  IF /\ MatchesAt(content, i, <<"[", "[">>)
              /\ MatchesAt(content, close, <<"]", "]">>)
              /\ head \in MatchedTargetsOf(fp)
           THEN <<"[", "[">> \o findBestMatch(head, KnownNames) \o alias \o <<"]", "]">>
                  \o WithLinksRewritten(content, close + 2, fp)
           ELSE <<content[i]>> \o WithLinksRewritten(content, i + 1, fp)

ContentOf(fp) == (CHOOSE f \in Range(files) : f.relativePath = fp).content

\* C17: at most one rewrite action per source document; its newContent is the
\* document's content with every [[T]] or [[T|alias]] of a matched broken target
\* T replaced by [[M]] or [[M|alias]], everything else unchanged.
C17_RewriteKeepsRest ==
  (pc = "plan" /\ only = "links") =>
    \A i \in 1..Len(fixPlan.actions) :
       ~fixPlan.actions[i].isCreate =>
         /\ \A j \in 1..Len(fixPlan.actions) :
              (~fixPlan.actions[j].isCreate
                 /\ fixPlan.actions[j].filePath = fixPlan.actions[i].filePath) => j = i
         /\ fixPlan.actions[i].originalContent = ContentOf(fixPlan.actions[i].filePath)
         /\ fixPlan.actions[i].newContent =
              WithLinksRewritten(ContentOf(fixPlan.actions[i].filePath), 1,
                                 fixPlan.actions[i].filePath)

\* a document with two matched targets, one written twice and once with an alias
C17_Witness ==
  /\ pc = "plan"
  /\ only = "links"
  /\ \E i \in 1..Len(fixPlan.actions) :
        /\ ~fixPlan.actions[i].isCreate
        /\ IncludesSub(fixPlan.actions[i].newContent,
                        <<"[","[","A","l","p","h","a","|","a","l","]","]">>)
        /\ IncludesSub(fixPlan.actions[i].newContent, <<"[","[","Z","e","n","]","]">>)
        /\ IncludesSub(fixPlan.actions[i].newContent, <<"[","[","A","l","p","h","a","]","]">>)

(***************************************************************************)
(* No action without a change                                              *)
(***************************************************************************)
\* the orphans fixOrphans works on, by name
FixableOrphanNames ==
  {BasenameExt(files[i].relativePath, MdExt) : i \in {n \in 1..Len(files) :
       /\ files[n].relativePath \in Range(linkReport.orphanFiles)
       /\ files[n].wordCount >= MIN_ORPHAN_WORDS}}

\* the actions among gen that add a link to the orphan of a name to a document
OrphanActionsOn(gen, fp, name) ==
  {k \in 1..Len(gen) :
     /\ gen[k].category = "orphans"
     /\ gen[k].filePath = fp
     /\ gen[k].description[1].names = <<name>>}

\* the text of the document already holds the link the orphan repair would insert
HoldsLinkText(f, name) == IncludesSub(f.content, <<"[", "[">> \o name \o <<"]", "]">>)

\* nothing to repair: no broken link, no orphan, no document without links
CleanVault ==
  /\ linkReport.brokenLinks = <<>>
  /\ linkReport.orphanFiles = <<>>
  /\ \A i \in 1..Len(files) : files[i].wikilinks /= <<>>

\* C18: every action of the plan that modifies a document, merged ones included,
\* has a newContent different from its originalContent (the document's content);
\* a transformation that leaves the content as it is contributes no action; a
\* vault with no broken link, no orphan and no isolated document has an empty plan.
C18_NoNoopActions ==
  pc = "plan" =>
    LET gen == Generated IN
    /\ \A i \in 1..Len(fixPlan.actions) :
         ~fixPlan.actions[i].isCreate =>
           /\ fixPlan.actions[i].originalContent = ContentOf(fixPlan.actions[i].filePath)
           /\ fixPlan.actions[i].newContent /= fixPlan.actions[i].originalContent
    /\ \A k \in 1..Len(gen) :
         ~gen[k].isCreate => gen[k].newContent /= gen[k].originalContent
    /\ \A i \in 1..Len(files) : \A name \in FixableOrphanNames :
         HoldsLinkText(files[i], name) => OrphanActionsOn(gen, files[i].relativePath, name) = {}
    /\ CleanVault => fixPlan.actions = <<>>

\* a plan of all three strategies for a vault where the orphan omega has two
\* candidates, one that holds the text [[omega]] inside inline code and gets no
\* action, one that gets the link in an action merged with its isolated repair
C18_Witness ==
  /\ pc = "plan" /\ only = NoCategory
  /\ \E name \in FixableOrphanNames : \E i, j \in 1..Len(files) :
       /\ HoldsLinkText(files[i], name)
       /\ files[i].relativePath \notin Range(linkReport.orphanFiles)
       /\ ~alreadyLinks(files[i], ToLowerCase(name))
       /\ PlanActionsFor(files[i].relativePath) = {}
       /\ OrphanActionsOn(Generated, files[j].relativePath, name) /= {}
       /\ files[j].relativePath \in MergedPaths

\* a plan for a vault of several documents with nothing to repair
C18_WitnessClean == pc = "plan" /\ CleanVault /\ Len(files) >= 2

(***************************************************************************)
(* The summary of a plan                                                   *)
(***************************************************************************)
ActionsWhere(P(_)) == {i \in 1..Len(fixPlan.actions) : P(fixPlan.actions[i])}

OfCategory(c) == LET Is(a) == a.category = c IN Cardinality(ActionsWhere(Is))

CreateCount == LET Is(a) == a.isCreate IN Cardinality(ActionsWhere(Is))

ModifyCount == LET Is(a) == ~a.isCreate IN Cardinality(ActionsWhere(Is))

\* C19: the summary of a plan counts the actions of the plan, after the merge:
\* totalFixes is the number of actions and the sum of the three category counts,
\* filesToCreate the number of create actions, filesToModify the number of the
\* others, and filesToModify + filesToCreate = totalFixes.
C19_SummaryCountsPlan ==
  pc = "plan" =>
    /\ fixPlan.actions = deduplicateActions(Generated)
    /\ fixPlan.summary.totalFixes = Len(fixPlan.actions)
    /\ fixPlan.summary.linkFixes = OfCategory("links")
    /\ fixPlan.summary.orphanFixes = OfCategory("orphans")
    /\ fixPlan.summary.isolatedFixes = OfCategory("isolated")
    /\ fixPlan.summary.totalFixes =
         fixPlan.summary.linkFixes + fixPlan.summary.orphanFixes
           + fixPlan.summary.isolatedFixes
    /\ fixPlan.summary.filesToCreate = CreateCount
    /\ fixPlan.summary.filesToModify = ModifyCount
    /\ fixPlan.summary.filesToModify + fixPlan.summary.filesToCreate
         = fixPlan.summary.totalFixes

\* a plan with a merged action and a stub to create: fewer actions than the
\* strategies generated
C19_Witness ==
  /\ pc = "plan"
  /\ MergedPaths /= {}
  /\ CreateCount > 0 /\ ModifyCount > 0
  /\ fixPlan.summary.totalFixes < Len(Generated)

(***************************************************************************)
(* Properties of applyFixPlan                                              *)
(***************************************************************************)
\* what happened to the k-th action attempted
Failed(k) == answers[k].prompt = "throws" \/ answers[k].write = "fails"

Rejected(k) == answers[k].prompt = "no"

Done(k) == ~Failed(k) /\ ~Rejected(k)

\* the positions in the error list of the k-th action attempted
ErrorsOf(k) ==
  {e \in 1..Len(returned.errors) :
     /\ returned.errors[e].action = answers[k].action
     /\ returned.errors[e].error = IF answers[k].prompt = "throws" THEN PromptError
                                   ELSE WriteError
     /\ e = Cardinality({j \in 1..k : Failed(j)})}

\* C20: with apply = true every action of the plan is attempted, in plan order,
\* whatever happened to the earlier ones (a failed write, a rejecting or failing
\* prompt); each failed action is in errors exactly once, as an {action, error}
\* pair; on return actionsApplied + actionsSkipped + errors.length is the number
\* of actions of the plan.
C20_EveryActionAttempted ==
  /\ pc = "apply" =>
       /\ Len(answers) < Len(fixPlan.actions)
       /\ ENABLED ApplyAction
  /\ (pc \in {"apply", "applied"} /\ returned.applied) =>
       /\ \A k \in 1..Len(answers) : answers[k].action = fixPlan.actions[k]
       /\ Len(returned.errors) = Cardinality({k \in 1..Len(answers) : Failed(k)})
       /\ \A k \in 1..Len(answers) :
            Cardinality(ErrorsOf(k)) = IF Failed(k) THEN 1 ELSE 0
       /\ returned.actionsSkipped = Cardinality({k \in 1..Len(answers) : Rejected(k)})
       /\ returned.actionsApplied = Cardinality({k \in 1..Len(answers) : Done(k)})
  /\ (pc = "applied" /\ returned.applied) =>
       /\ Len(answers) = Len(fixPlan.actions)
       /\ returned.actionsApplied + returned.actionsSkipped + Len(returned.errors)
            = Len(fixPlan.actions)

\* a plan of three actions applied to the end: the first action failed, the
\* second was rejected at the prompt, the third was written
C20_Witness ==
  /\ pc = "applied" /\ returned.applied
  /\ Len(fixPlan.actions) = 3
  /\ Failed(1) /\ Rejected(2) /\ Done(3)
  /\ Len(disk) = 1 /\ disk[1].filePath = fixPlan.actions[3].filePath

\* a plan applied to the end after a failing prompt and a failing write
C20_WitnessBothFailures ==
  /\ pc = "applied" /\ returned.applied
  /\ Len(fixPlan.actions) = 3
  /\ answers[1].prompt = "throws" /\ answers[2].write = "fails" /\ Done(3)

(***************************************************************************)
(* Properties of fixIsolated                                               *)
(***************************************************************************)
FileAt(fp) == CHOOSE f \in Range(files) : f.relativePath = fp

OwnName(fp) == BasenameExt(fp, MdExt)

\* the number of link openings [[name]] or [[name|...]] in a content
ReferencesTo(content, name) ==
  Cardinality({i \in 1..Len(content) :
                 \/ MatchesAt(content, i, <<"[", "[">> \o name \o <<"]", "]">>)
                 \/ MatchesAt(content, i, <<"[", "[">> \o name \o <<"|">>)})

\* the action adds a reference to the name of the document it modifies
InsertsOwnName(a) ==
  \/ OwnName(a.filePath) \in Range(a.description[1].names)
  \/ ReferencesTo(a.newContent, OwnName(a.filePath))
       > ReferencesTo(a.originalContent, OwnName(a.filePath))

\* C21: fixIsolated produces actions only for documents with no outbound links
\* and at least 5 words, and never inserts into a document a reference to that
\* document's own name.
C21_IsolatedOnlyNoSelfLink ==
  (pc = "plan" /\ only = "isolated") =>
    \A i \in 1..Len(fixPlan.actions) :
      /\ fixPlan.actions[i].category = "isolated"
      /\ FileAt(fixPlan.actions[i].filePath).wikilinks = <<>>
      /\ FileAt(fixPlan.actions[i].filePath).wordCount >= 5
      /\ ~InsertsOwnName(fixPlan.actions[i])

\* the part of C21 about which documents get an action
C21_IsolatedOnly ==
  (pc = "plan" /\ only = "isolated") =>
    \A i \in 1..Len(fixPlan.actions) :
      /\ fixPlan.actions[i].category = "isolated"
      /\ FileAt(fixPlan.actions[i].filePath).wikilinks = <<>>
      /\ FileAt(fixPlan.actions[i].filePath).wordCount >= 5

\* a document gets a reference to its own name only when another document of
\* the vault has the same basename
C21_SelfLinkOnlyByNamesake ==
  (pc = "plan" /\ only = "isolated") =>
    \A i \in 1..Len(fixPlan.actions) :
      InsertsOwnName(fixPlan.actions[i]) =>
        \E j \in 1..Len(files) :
          /\ files[j].relativePath /= fixPlan.actions[i].filePath
          /\ OwnName(files[j].relativePath) = OwnName(fixPlan.actions[i].filePath)

\* a plan with an action, for a vault that also holds a document with links and
\* mentions, or a short document with a mention, that gets none
C21_SomeSkipped ==
  /\ pc = "plan" /\ only = "isolated"
  /\ fixPlan.actions /= <<>>
  /\ \E j \in 1..Len(files) :
       /\ files[j].wikilinks /= <<>> \/ files[j].wordCount < 5
       /\ findMentions(files[j].content, <<"A","l","p","h","a">>) /= <<>>

\* the names of the other documents that fixIsolated knows, each once, in
\* document order
OtherNames(fp) ==
  LET Other(f) == f.relativePath /= fp /\ Len(OwnName(f.relativePath)) >= 3
      others == SelectSeq(files, Other)
  IN  Distinct([j \in 1..Len(others) |-> OwnName(others[j].relativePath)])

\* the positions at which a content mentions a name, in any normalized form
MentionsOf(content, name) == Range(findMentions(content, name))

\* the normalized form of the name that the content spells at a position
FormAt(content, p, name) ==
  CHOOSE v \in Range(nameVariants(name)) :
    /\ p + Len(v) - 1 <= Len(content)
    /\ ToLowerCase(SubSeq(content, p, p + Len(v) - 1)) = v

\* the content with the earliest mention of the name turned into a reference,
\* with the text of the mention as alias when it is not the name itself
WithEarliestLinked(content, name) ==
  IF MentionsOf(content, name) = {} THEN content
  ELSE LET p == CHOOSE x \in MentionsOf(content, name) :
                  \A y \in MentionsOf(content, name) : x <= y
           text == SubSeq(content, p, p + Len(FormAt(content, p, name)) - 1)
           ref == IF text = name THEN <<"[", "[">> \o name \o <<"]", "]">>
                  ELSE <<"[", "[">> \o name \o <<"|">> \o text \o <<"]", "]">>
       IN  SubSeq(content, 1, p - 1) \o ref \o SubSeq(content, p + Len(text), Len(content))

RECURSIVE WithAllLinked(_, _)
WithAllLinked(content, names) ==
  IF names = <<>> THEN content
  ELSE WithAllLinked(WithEarliestLinked(content, Head(names)), Tail(names))

\* the isolated documents of at least 5 words
Eligible(f) == f.wikilinks = <<>> /\ f.wordCount >= 5

\* the plan's action for each eligible document that mentions a known name is
\* the document with the earliest mention of each name linked
EarliestMentionsLinked ==
  /\ \A i \in 1..Len(fixPlan.actions) :
       fixPlan.actions[i].newContent =
         WithAllLinked(fixPlan.actions[i].originalContent, OtherNames(fixPlan.actions[i].filePath))
  /\ \A j \in 1..Len(files) :
       (/\ Eligible(files[j])
        /\ WithAllLinked(files[j].content, OtherNames(files[j].relativePath)) /= files[j].content)
         => \E i \in 1..Len(fixPlan.actions) : fixPlan.actions[i].filePath = files[j].relativePath

\* C22: for each known name mentioned in an isolated document, fixIsolated turns
\* exactly one mention into a reference, the earliest one in any normalized form
\* of the name; later mentions stay as they are, and the reference carries the
\* original text as alias when it differs from the name.
C22_EarliestMentionLinked ==
  (pc = "plan" /\ only = "isolated") => EarliestMentionsLinked

\* every name of the vault has one normalized form and belongs to one document
SimpleNames ==
  \A j \in 1..Len(files) :
    /\ Len(nameVariants(OwnName(files[j].relativePath))) <= 1
    /\ \A k \in 1..Len(files) :
         OwnName(files[k].relativePath) = OwnName(files[j].relativePath) => k = j

\* the statement of C22 for vaults whose names have one form and one document
C22_EarliestOfSimpleNames ==
  (pc = "plan" /\ only = "isolated" /\ SimpleNames) => EarliestMentionsLinked

\* a plan that links the first of two mentions of Alpha and leaves the second
C22_SomeSimpleLinked ==
  /\ pc = "plan" /\ only = "isolated" /\ SimpleNames
  /\ \E i \in 1..Len(fixPlan.actions) :
       /\ ReferencesTo(fixPlan.actions[i].newContent, <<"A","l","p","h","a">>) = 1
       /\ Cardinality(MentionsOf(fixPlan.actions[i].originalContent, <<"A","l","p","h","a">>)) = 2
       /\ Cardinality(MentionsOf(fixPlan.actions[i].newContent, <<"A","l","p","h","a">>)) = 1

(***************************************************************************)
(* Properties of fixOrphans                                                *)
(***************************************************************************)
IsOrphanDoc(f) == f.relativePath \in Range(linkReport.orphanFiles)

\* the orphans of at least 10 words
LongOrphans == {o \in Range(files) : IsOrphanDoc(o) /\ o.wordCount >= 10}

\* the score of document j as a source of links to the orphan, times the number
\* of the orphan's keywords
ScoreFor(j, o) == scaledScore(files[j], OwnName(o.relativePath), extractKeywords(o.content))

LinkListHolds(f, name) ==
  \E k \in 1..Len(f.wikilinks) : ToLowerCase(f.wikilinks[k]) = ToLowerCase(name)

\* the documents that may get a link to the orphan: no orphans, no link to it
\* in the link list, score above 2
CandidatesFor(o) ==
  {j \in 1..Len(files) :
     /\ ~IsOrphanDoc(files[j])
     /\ ~LinkListHolds(files[j], OwnName(o.relativePath))
     /\ ScoreFor(j, o) > 2 * Len(extractKeywords(o.content))}

\* a set of the (at most two) highest-scoring candidates
IsTopTwo(top, o) ==
  /\ top \subseteq CandidatesFor(o)
  /\ Cardinality(top) = Min(2, Cardinality(CandidatesFor(o)))
  /\ \A t \in top : \A c \in CandidatesFor(o) \ top : ScoreFor(t, o) >= ScoreFor(c, o)

\* the documents for which gen holds an insertion of a link to the orphan
TargetsFor(gen, o) ==
  {j \in 1..Len(files) :
     OrphanActionsOn(gen, files[j].relativePath, OwnName(o.relativePath)) /= {}}

\* C23: for each orphan of at least 10 words fixOrphans proposes insertions
\* into at most two documents, the highest-scoring candidates with score > 2;
\* none of them is an orphan, has the orphan's name in its link list, or holds
\* the text [[orphan name]] already.
C23_TopTwoCandidates ==
  (pc = "plan" /\ only = "orphans") =>
    LET gen == Generated IN
    /\ \A k \in 1..Len(gen) :
         \E o \in LongOrphans : gen[k].description[1].names = <<OwnName(o.relativePath)>>
    /\ \A o \in LongOrphans :
         LET targets == TargetsFor(gen, o) IN
         /\ Cardinality(targets) <= 2
         /\ \E top \in SUBSET CandidatesFor(o) :
              /\ IsTopTwo(top, o)
              /\ targets = {t \in top : ~HoldsLinkText(files[t], OwnName(o.relativePath))}
         /\ \A t \in targets :
              /\ ~IsOrphanDoc(files[t])
              /\ ~LinkListHolds(files[t], OwnName(o.relativePath))
              /\ ~HoldsLinkText(files[t], OwnName(o.relativePath))
              /\ Cardinality(OrphanActionsOn(gen, files[t].relativePath,
                                              OwnName(o.relativePath))) = 1

\* an orphan with three candidates above the threshold: the best one gets the
\* link, the second holds the text [[omega]] in inline code and gets nothing,
\* the third is not proposed
C23_Witness ==
  /\ pc = "plan" /\ only = "orphans"
  /\ \E o \in LongOrphans :
       /\ Cardinality(CandidatesFor(o)) = 3
       /\ Cardinality(TargetsFor(Generated, o)) = 1
       /\ \E c \in CandidatesFor(o) :
            /\ HoldsLinkText(files[c], OwnName(o.relativePath))
            /\ \E d \in CandidatesFor(o) : ScoreFor(d, o) < ScoreFor(c, o)

\* an orphan with two proposals, made in another order than the document order
C23_SomeTwoTargets ==
  /\ pc = "plan" /\ only = "orphans"
  /\ \E o \in LongOrphans :
       /\ Cardinality(TargetsFor(Generated, o)) = 2
       /\ \E k \in 1..(Len(Generated) - 1) :
            FileAt(Generated[k].filePath) /= FileAt(Generated[k + 1].filePath)
            /\ \E i, j \in 1..Len(files) :
                 /\ i > j
                 /\ files[i].relativePath = Generated[k].filePath
                 /\ files[j].relativePath = Generated[k + 1].filePath

(***************************************************************************)
(* The category filter of generateFixPlan                                  *)
(***************************************************************************)
\* C24: with a category filter c every action of the plan has category c, and
\* the summary counts of the other two categories are 0.
C24_FilterKeepsOneCategory ==
  (pc = "plan" /\ only /= NoCategory) =>
    /\ \A i \in 1..Len(fixPlan.actions) : fixPlan.actions[i].category = only
    /\ only /= "links" => fixPlan.summary.linkFixes = 0
    /\ only /= "orphans" => fixPlan.summary.orphanFixes = 0
    /\ only /= "isolated" => fixPlan.summary.isolatedFixes = 0

\* a filtered plan with actions, for a vault whose unfiltered plan has actions
\* of another category as well
C24_Witness ==
  /\ pc = "plan" /\ only /= NoCategory
  /\ fixPlan.actions /= <<>>
  /\ LET all == generatedActions(files, linkReport, analyzeQuality(files), NoCategory)
     IN  \E k \in 1..Len(all) : all[k].category /= only

(***************************************************************************)
(* Successive runs of the doctor command                                   *)
(***************************************************************************)
MessagesOf(issues) == {issues[i].message : i \in 1..Len(issues)}

\* C25: in a sequence of doctor runs on a vault the previous scan is loaded
\* before the current one is saved: the first run reports no comparison; a
\* later run reports as previousScore the score that the run before it saved
\* (which is the score that run reported), as scoreDelta its own score minus
\* that score, and as newIssues and resolvedIssues the numbers of messages it
\* has and the run before has not, and the reverse.
C25_PreviousLoadedBeforeSaved ==
  [][ pc' = "doctor" =>
        /\ disk' = << [score |-> returned'.score, issues |-> returned'.issues] >>
        /\ IF pc = "scan"
           THEN returned'.comparison = NoReport
           ELSE /\ disk[1].score = returned.score
                /\ disk[1].issues = returned.issues
                /\ returned'.comparison /= NoReport
                /\ returned'.comparison.previousScore = disk[1].score
                /\ returned'.comparison.scoreDelta = returned'.score - disk[1].score
                /\ returned'.comparison.newIssues =
                     Cardinality(MessagesOf(returned'.issues) \ MessagesOf(disk[1].issues))
                /\ returned'.comparison.resolvedIssues =
                     Cardinality(MessagesOf(disk[1].issues) \ MessagesOf(returned'.issues)) ]_vars

\* a later run whose score differs from the one before, with issues that are
\* new and issues that are resolved
C25_Witness ==
  /\ pc = "doctor"
  /\ returned.comparison /= NoReport
  /\ returned.comparison.scoreDelta < 0
  /\ returned.comparison.newIssues > 0
  /\ returned.comparison.resolvedIssues > 0

\* a first run, with issues to save
C25_WitnessFirstRun ==
  /\ pc = "doctor"
  /\ returned.comparison = NoReport
  /\ returned.issues /= <<>>

(***************************************************************************)
(* The order of the merged plan                                            *)
(***************************************************************************)
\* the position in a sequence of actions of the first one that modifies the path
FirstModifying(actions, fp) ==
  LET hits == {k \in 1..Len(actions) : ~actions[k].isCreate /\ actions[k].filePath = fp}
  IN  CHOOSE k \in hits : \A m \in hits : k <= m

\* C26: the final plan holds at most one non-create action per path (and one
\* for every path a sub-strategy modifies); the create actions of the
\* sub-strategies are in it unmerged and unchanged; the originalContent of a
\* non-create action, merged or not, is the content of the document; all
\* non-create actions precede all create actions and stand in the order of the
\* first generated action of their files.
C26_MergedPlanOrder ==
  pc = "plan" =>
    LET gen == Generated
        acts == fixPlan.actions
        IsCreate(a) == a.isCreate
    IN  /\ \A i, j \in 1..Len(acts) :
             (i < j /\ ~acts[i].isCreate /\ ~acts[j].isCreate)
               => /\ acts[i].filePath /= acts[j].filePath
                  /\ FirstModifying(gen, acts[i].filePath)
                       < FirstModifying(gen, acts[j].filePath)
        /\ \A k \in 1..Len(gen) :
             ~gen[k].isCreate =>
               \E i \in 1..Len(acts) : ~acts[i].isCreate /\ acts[i].filePath = gen[k].filePath
        /\ SelectSeq(acts, IsCreate) = SelectSeq(gen, IsCreate)
        /\ \A i \in 1..Len(acts) :
             ~acts[i].isCreate =>
               /\ \E k \in 1..Len(gen) : ~gen[k].isCreate /\ gen[k].filePath = acts[i].filePath
               /\ acts[i].originalContent = ContentOf(acts[i].filePath)
        /\ \A i, j \in 1..Len(acts) :
             (acts[i].isCreate /\ ~acts[j].isCreate) => j < i

\* a plan in which a single action precedes a merged one and a create action
\* follows both
C26_Witness ==
  /\ pc = "plan"
  /\ LET gen == Generated
         acts == fixPlan.actions
         Generations(fp) ==
           Cardinality({k \in 1..Len(gen) : ~gen[k].isCreate /\ gen[k].filePath = fp})
     IN  \E i, j, k \in 1..Len(acts) :
           /\ i < j /\ j < k
           /\ ~acts[i].isCreate /\ Generations(acts[i].filePath) = 1
           /\ ~acts[j].isCreate /\ Generations(acts[j].filePath) > 1
           /\ acts[k].isCreate

(***************************************************************************)
(* The order of clusters and bridges                                       *)
(***************************************************************************)
\* C27: the output order of analyzeGraph follows document order: the first
\* element of a cluster is its earliest document, the clusters are listed in
\* increasing order of that document's position, the bridges are listed in
\* document order, and a second run on the same documents gives the same output.
C27_OrderFollowsDocuments ==
  pc = "graph" =>
    /\ \A c \in 1..Len(graphData.clusters) :
         \A k \in 1..Len(graphData.clusters[c]) :
            DocIndex(graphData.clusters[c][1]) <= DocIndex(graphData.clusters[c][k])
    /\ \A c, d \in 1..Len(graphData.clusters) :
         c < d => DocIndex(graphData.clusters[c][1]) < DocIndex(graphData.clusters[d][1])
    /\ \A i, j \in 1..Len(graphData.bridges) :
         i < j => DocIndex(graphData.bridges[i]) < DocIndex(graphData.bridges[j])
    /\ analyzeGraph(files) = graphData

\* two bridges, in a cluster whose elements are not in document order
C27_Witness ==
  /\ pc = "graph"
  /\ Len(graphData.bridges) >= 2
  /\ \E c \in 1..Len(graphData.clusters) :
       \E k, m \in 1..Len(graphData.clusters[c]) :
          k < m /\ DocIndex(graphData.clusters[c][k]) > DocIndex(graphData.clusters[c][m])

\* two clusters of two documents, the second starting before the first ends
C27_SomeInterleaved ==
  /\ pc = "graph"
  /\ Len(graphData.clusters) = 2
  /\ Len(graphData.clusters[1]) = 2
  /\ DocIndex(graphData.clusters[2][1]) < DocIndex(graphData.clusters[1][2])

(***************************************************************************)
(* The debounce of the watch command                                       *)
(***************************************************************************)
\* the event is for a file ending in .md whose name does not start with .vault-mind
Qualifying(e) ==
  /\ e.kind = "event"
  /\ Len(e.filename) >= 3
  /\ SubSeq(e.filename, Len(e.filename) - 2, Len(e.filename)) = <<".", "m", "d">>
  /\ ~(Len(e.filename) >= 11
       /\ SubSeq(e.filename, 1, 11) = <<".","v","a","u","l","t","-","m","i","n","d">>)

\* the entries of the log before entry k that are qualifying events
QualifyingBefore(k) == {i \in 1..(k - 1) : Qualifying(watchLog[i])}

\* every scan follows a qualifying event, starts no earlier than DEBOUNCE_MS
\* after the last one before it, whatever other events came in between, and
\* is the only scan after that event
ScansAfterQuiet ==
  \A k \in 1..Len(watchLog) :
     watchLog[k].kind = "scan" =>
       /\ QualifyingBefore(k) /= {}
       /\ LET last == CHOOSE i \in QualifyingBefore(k) : \A j \in QualifyingBefore(k) : j <= i
          IN  /\ watchLog[last].at + DEBOUNCE_MS <= watchLog[k].at
              /\ watchLog[k].filename = watchLog[last].filename
              /\ \A m \in (last + 1)..(k - 1) : watchLog[m].kind /= "scan"

\* an event that does not qualify leaves the timer as it is
OthersLeaveTimer ==
  [][ \A e \in {watchLog'[Len(watchLog')]} :
        (Len(watchLog') = Len(watchLog) + 1 /\ e.kind = "event" /\ ~Qualifying(e))
          => debounce' = debounce ]_vars

Pending == debounce /= NoReport /\ debounce.pending

\* C28: in watch mode a re-scan starts only once DEBOUNCE_MS = 1000 ms have
\* passed without a further qualifying event, so that a burst of qualifying
\* events less than 1 second apart gets exactly one re-scan, after the last of
\* them; an event for a file that does not end in .md or whose name starts
\* with .vault-mind starts no scan and postpones none.
C28_Debounced ==
  /\ []ScansAfterQuiet
  /\ OthersLeaveTimer
  /\ (Pending ~> ~Pending)

\* a burst of two qualifying events half a second apart, then an event that does
\* not qualify, then the one scan, 1 second after the second qualifying event
C28_Witness ==
  /\ Len(watchLog) = 4
  /\ Qualifying(watchLog[1]) /\ Qualifying(watchLog[2])
  /\ watchLog[2].at - watchLog[1].at < DEBOUNCE_MS
  /\ watchLog[3].kind = "event" /\ ~Qualifying(watchLog[3])
  /\ watchLog[3].at > watchLog[2].at
  /\ watchLog[4].kind = "scan"
  /\ watchLog[4].at = watchLog[2].at + DEBOUNCE_MS

\* two scans: a second burst after the first was scanned
C28_SomeTwoScans ==
  Cardinality({k \in 1..Len(watchLog) : watchLog[k].kind = "scan"}) = 2

(***************************************************************************)
(* The links of the graph and the links of the classifier                  *)
(***************************************************************************)
\* the occurrence yields an edge: the graph has an edge from its source to a
\* document that the link names by its lower-cased basename
YieldsEdge(o) ==
  \E e \in Range(graphData.edges) :
     /\ e.source = o.source
     /\ \E f \in Range(files) :
          /\ f.relativePath = e.target
          /\ ToLowerCase(BasenameExt(f.relativePath, MdExt)) = ToLowerCase(o.target)

\* C29: every link occurrence that yields an edge in analyzeGraph is resolved
\* by analyzeLinks on the same documents: it is neither in brokenLinks nor in
\* pathStyleLinks.
C29_EdgeLinksResolved ==
  pc = "graph" =>
    LET report == analyzeLinks(files)
    IN  \A o \in Range(Occurrences(files)) :
           YieldsEdge(o) =>
             /\ \A b \in Range(report.brokenLinks) :
                  ~(b.source = o.source /\ b.target = o.target)
             /\ \A ps \in Range(report.pathStyleLinks) :
                  ~(ps.source = o.source /\ ps.target = o.target)

\* the part that holds: a link that yields an edge is never reported as
\* path-style, and it is reported broken only if it holds a '#'
C29_EdgeLinksWithoutHashResolved ==
  pc = "graph" =>
    LET report == analyzeLinks(files)
    IN  \A o \in Range(Occurrences(files)) :
           YieldsEdge(o) =>
             /\ \A b \in Range(report.brokenLinks) :
                  (b.source = o.source /\ b.target = o.target) => Includes(o.target, "#")
             /\ \A ps \in Range(report.pathStyleLinks) :
                  ~(ps.source = o.source /\ ps.target = o.target)

\* links without '#' yield edges
C29_SomeEdgeResolved ==
  /\ pc = "graph"
  /\ \E o \in Range(Occurrences(files)) : YieldsEdge(o) /\ ~Includes(o.target, "#")
  /\ analyzeLinks(files).brokenLinks /= <<>>

(***************************************************************************)
(* Documents that share a basename                                         *)
(***************************************************************************)
\* the number of links of document i whose lower-cased text is the name
LinksNaming(i, name) ==
  Cardinality({k \in 1..Len(files[i].wikilinks) : ToLowerCase(files[i].wikilinks[k]) = name})

\* C30: when several documents share a basename, case-insensitively, every
\* link to that name from a document other than the last of them becomes an
\* edge into that last document and into none of the others, and a link to the
\* name in the last document itself yields no edge.
C30_NamesakeEdges ==
  pc = "graph" =>
    \A j, m \in 1..Len(files) :
       (j < m /\ IsLastNamed(m, LowerName(files[j]))) =>
         \A i \in 1..Len(files) :
            /\ EdgeCount(files[i].relativePath, files[m].relativePath)
                 = IF i = m THEN 0 ELSE LinksNaming(i, LowerName(files[m]))
            /\ \A n \in 1..Len(files) :
                 (n /= m /\ LowerName(files[n]) = LowerName(files[m]))
                   => EdgeCount(files[i].relativePath, files[n].relativePath) = 0

\* two documents of one basename, each with a link to that name: the link of
\* the earlier one is an edge into the later one
C30_Witness ==
  /\ pc = "graph"
  /\ \E j, m \in 1..Len(files) :
        /\ j < m
        /\ IsLastNamed(m, LowerName(files[j]))
        /\ LinksNaming(j, LowerName(files[m])) > 0
        /\ LinksNaming(m, LowerName(files[m])) > 0
        /\ EdgeCount(files[j].relativePath, files[m].relativePath) > 0

\* a third document links to the name twice
C30_SomeOutsideLinks ==
  /\ pc = "graph"
  /\ \E i, j, m \in 1..Len(files) :
        /\ j < m /\ i /= j /\ i /= m
        /\ IsLastNamed(m, LowerName(files[j]))
        /\ LinksNaming(i, LowerName(files[m])) = 2

(***************************************************************************)
(* Specifications                                                          *)
(***************************************************************************)
SpecLinks ==
  /\ Init
  /\ [][ \/ AddFile({ <<"A",".","m","d">>, <<"b",".","m","d">>, <<"d","o","c","s","/","c",".","m","d">> }, MaxFiles)
       \/ AddLink({ <<"b">>, <<"a","#","S">>, <<"Z","#","S">>, <<"#","S">>, <<"a","#","S","#","T">> }, MaxLinks)
       \/ RunAnalyzeLinks ]_vars

SpecGraph ==
  /\ Init
  /\ [][ \/ AddFile({ <<"A",".","m","d">>, <<"b",".","m","d">>, <<"c",".","m","d">>,
               <<"x","/","A",".","m","d">> }, MaxGraphFiles)
       \/ AddLink({ <<"a">>, <<"B">>, <<"c">> }, MaxGraphLinks)
       \/ RunAnalyzeGraph ]_vars

SpecPaths ==
  /\ Init
  /\ [][ \/ AddFile({ <<"A",".","m","d">>, <<"b",".","m","d">>, <<"x","/","A",".","m","d">> }, MaxFiles)
       \/ AddLink({ <<"a">>, <<"x","/","A">>, <<"x","/","a",".","m","d">>, <<"x","/","A",".","M","D">>,
               <<"y","/","A">> }, MaxLinks)
       \/ RunAnalyzeLinks ]_vars

SpecEdges ==
  /\ Init
  /\ [][ \/ AddFile({ <<"A",".","m","d">>, <<"b",".","m","d">>, <<"x","/","A",".","m","d">> }, MaxEdgeFiles)
       \/ AddLink({ <<"a">>, <<"B">>, <<"b","#","S">>, <<"x","/","A">> }, MaxEdgeLinks)
       \/ RunAnalyzeGraph ]_vars

\* the documents of the repair vaults, as the scanner hands them over:
\*   hub.md: "see [[Alpa]] and omega"
\*   Alpha.md: "go [[hub]]"
\*   omega.md: "omega hub c d e f g h i j"
\*   notes.md: "alpha and omega met here"
\*   index.md: "[[hub]] [[notes]]"
SpecFix ==
  /\ Init
  /\ [][ \/ AddDocument(
           { [ relativePath |-> <<"h","u","b",".","m","d">>,
             content |->
               <<"s","e","e"," ","[","[","A","l","p","a","]","]"," ","a","n","d"," ","o","m","e","g",
                 "a">>,
             wikilinks |-> <<<<"A","l","p","a">>>>,
             wordCount |-> 4 ],
           [ relativePath |-> <<"A","l","p","h","a",".","m","d">>,
             content |->
               <<"g","o"," ","[","[","h","u","b","]","]">>,
             wikilinks |-> <<<<"h","u","b">>>>,
             wordCount |-> 2 ],
           [ relativePath |-> <<"o","m","e","g","a",".","m","d">>,
             content |->
               <<"o","m","e","g","a"," ","h","u","b"," ","c"," ","d"," ","e"," ","f"," ","g"," ","h",
                 " ","i"," ","j">>,
             wikilinks |-> <<>>,
             wordCount |-> 10 ],
           [ relativePath |-> <<"n","o","t","e","s",".","m","d">>,
             content |->
               <<"a","l","p","h","a"," ","a","n","d"," ","o","m","e","g","a"," ","m","e","t"," ","h",
                 "e","r","e">>,
             wikilinks |-> <<>>,
             wordCount |-> 5 ],
           [ relativePath |-> <<"i","n","d","e","x",".","m","d">>,
             content |->
               <<"[","[","h","u","b","]","]"," ","[","[","n","o","t","e","s","]","]">>,
             wikilinks |-> <<<<"h","u","b">>, <<"n","o","t","e","s">>>>,
             wordCount |-> 2 ] },
           MaxFixFiles)
       \/ FixCommand ]_vars

SpecApply ==
  /\ Init
  /\ [][ \/ AddDocument(RewriteDocuments, MaxApplyFiles)
       \/ FixCommand
       \/ ApplyFixPlan
       \/ ApplyAction ]_vars

\* the documents of the vaults with nothing to insert, as the scanner hands them over
\* (a wikilink inside inline code is text, not a link):
\*   omega.md: "omega [[notes]] c d e f g h i j"
\*   code.md: "omega `[[omega]]` [[pal]]"
\*   pal.md: "[[code]]"
\*   notes.md: "omega and code met here"
SpecNoop ==
  /\ Init
  /\ [][ \/ AddDocument(
           { [ relativePath |-> <<"o","m","e","g","a",".","m","d">>,
             content |->
               <<"o","m","e","g","a"," ","[","[","n","o","t","e","s","]","]"," ","c"," ","d"," ","e"," ","f"," ","g"," ","h"," ","i"," ","j">>,
             wikilinks |-> <<<<"n","o","t","e","s">>>>,
             wordCount |-> 10 ],
           [ relativePath |-> <<"c","o","d","e",".","m","d">>,
             content |->
               <<"o","m","e","g","a"," ",Backtick,"[","[","o","m","e","g","a","]","]",Backtick," ","[","[","p","a","l","]","]">>,
             wikilinks |-> <<<<"p","a","l">>>>,
             wordCount |-> 3 ],
           [ relativePath |-> <<"p","a","l",".","m","d">>,
             content |->
               <<"[","[","c","o","d","e","]","]">>,
             wikilinks |-> <<<<"c","o","d","e">>>>,
             wordCount |-> 1 ],
           [ relativePath |-> <<"n","o","t","e","s",".","m","d">>,
             content |->
               <<"o","m","e","g","a"," ","a","n","d"," ","c","o","d","e"," ","m","e","t"," ","h","e","r","e">>,
             wikilinks |-> <<>>,
             wordCount |-> 5 ] },
           MaxNoopFiles)
       \/ FixCommand ]_vars

SpecRewrite ==
  /\ Init
  /\ [][ \/ AddDocument(RewriteDocuments, MaxRewriteFiles)
       \/ FixCommand ]_vars

\* the fix command on the vaults of documents that mention one another:
\*   notes.md: "Beta Man met Beta-Man and Alpha then Alpha left"
\*   Alpha.md: "Alpha is a person of note"
\*   x/Alpha.md: "see Alpha"
\*   Beta-Man.md: "b [[notes]]"
\*   linked.md: "Alpha and Beta Man went home [[notes]]"
SpecIsolated ==
  /\ Init
  /\ [][ \/ AddDocument({ [ relativePath |-> <<"n","o","t","e","s",".","m","d">>,
                          content |->
                            <<"B","e","t","a"," ","M","a","n"," ","m","e","t"," ","B","e","t","a","-","M","a","n"," ","a","n","d"," ","A","l","p","h","a"," ","t","h","e","n"," ","A","l","p","h","a"," ","l","e","f","t">>,
                          wikilinks |-> <<>>,
                          wordCount |-> 9 ],
                        [ relativePath |-> <<"A","l","p","h","a",".","m","d">>,
                          content |->
                            <<"A","l","p","h","a"," ","i","s"," ","a"," ","p","e","r","s","o","n"," ","o","f"," ","n","o","t","e">>,
                          wikilinks |-> <<>>,
                          wordCount |-> 6 ],
                        [ relativePath |-> <<"x","/","A","l","p","h","a",".","m","d">>,
                          content |->
                            <<"s","e","e"," ","A","l","p","h","a">>,
                          wikilinks |-> <<>>,
                          wordCount |-> 2 ],
                        [ relativePath |-> <<"B","e","t","a","-","M","a","n",".","m","d">>,
                          content |->
                            <<"b"," ","[","[","n","o","t","e","s","]","]">>,
                          wikilinks |-> <<<<"n","o","t","e","s">>>>,
                          wordCount |-> 2 ],
                        [ relativePath |-> <<"l","i","n","k","e","d",".","m","d">>,
                          content |->
                            <<"A","l","p","h","a"," ","a","n","d"," ","B","e","t","a"," ","M","a","n"," ","w","e","n","t"," ","h","o","m","e"," ","[","[","n","o","t","e","s","]","]">>,
                          wikilinks |-> <<<<"n","o","t","e","s">>>>,
                          wordCount |-> 7 ] },
                        MaxIsolatedFiles)
       \/ FixCommand ]_vars

\* the fix command on the vaults of an orphan and the documents it links to:
\*   omega.md: "omega gamma delta [[one]] [[two]] [[three]] [[low]] f g h"
\*   one.md: "omega `[[omega]]`"
\*   two.md: "gamma delta"
\*   three.md: "omega gamma"
\*   low.md: "delta x"
SpecOrphans ==
  /\ Init
  /\ [][ \/ AddDocument({ [ relativePath |-> <<"o","m","e","g","a",".","m","d">>,
                          content |->
                            <<"o","m","e","g","a"," ","g","a","m","m","a"," ","d","e","l","t","a"," ","[","[","o","n","e","]","]"," ","[","[","t","w","o","]","]"," ","[","[","t","h","r","e","e","]","]"," ","[","[","l","o","w","]","]"," ","f"," ","g"," ","h">>,
                          wikilinks |-> <<<<"o","n","e">>, <<"t","w","o">>, <<"t","h","r","e","e">>, <<"l","o","w">>>>,
                          wordCount |-> 10 ],
                        [ relativePath |-> <<"o","n","e",".","m","d">>,
                          content |->
                            <<"o","m","e","g","a"," ",Backtick,"[","[","o","m","e","g","a","]","]",Backtick>>,
                          wikilinks |-> <<>>,
                          wordCount |-> 2 ],
                        [ relativePath |-> <<"t","w","o",".","m","d">>,
                          content |->
                            <<"g","a","m","m","a"," ","d","e","l","t","a">>,
                          wikilinks |-> <<>>,
                          wordCount |-> 2 ],
                        [ relativePath |-> <<"t","h","r","e","e",".","m","d">>,
                          content |->
                            <<"o","m","e","g","a"," ","g","a","m","m","a">>,
                          wikilinks |-> <<>>,
                          wordCount |-> 2 ],
                        [ relativePath |-> <<"l","o","w",".","m","d">>,
                          content |->
                            <<"d","e","l","t","a"," ","x">>,
                          wikilinks |-> <<>>,
                          wordCount |-> 2 ] },
                        MaxOrphanFiles)
       \/ FixCommand ]_vars

\* doctor runs on a vault that changes between the runs: each run scans
\* MEMORY.md stale or not, up to MaxBrokenLinks broken links, four stubs or
\* none, and orphans among the files (none of 5, 4 of 5, 1 of 3, 4 of 8)
SpecDoctor ==
  /\ Init
  /\ [][ DoctorCommand(
           { [ staleness |->
                 [ staleCoreFiles |-> core, staleFiles |-> <<>>, dailyLogGaps |-> <<>>,
                   dailyLogStreak |-> 0 ],
               links |->
                 [ brokenLinks |-> [i \in 1..b |-> [target |-> <<"t", i>>]],
                   orphanFiles |-> [i \in 1..no[2] |-> <<"o", i>>],
                   connectivityScore |-> Ratio(no[1] - no[2], no[1]) ],
               quality |->
                 [ stubs |-> [i \in 1..st |-> <<"s", i>>], oversized |-> <<>>,
                   duplicates |-> <<>>, isolatedFiles |-> <<>>, selfReview |-> NoReport ] ] :
             core \in { <<>>, << [path |-> "MEMORY.md", daysSinceUpdate |-> 40] >> },
             b \in 0..MaxBrokenLinks,
             no \in { <<5, 0>>, <<5, 4>>, <<3, 1>>, <<8, 4>> },
             st \in {0, 4} }) ]_vars

\* the fix command on the vaults whose plans hold merged, single and create actions:
\*   pre.md: "[[Alpa]] x"
\*   hub.md: "see [[Alpa]] [[Zzzzzz]] and omega"
\*   Alpha.md: "go [[hub]]"
\*   omega.md: "omega hub c d e f g h i j"
SpecMerge ==
  /\ Init
  /\ [][ \/ AddDocument({ [ relativePath |-> <<"p","r","e",".","m","d">>,
                            content |->
                              <<"[","[","A","l","p","a","]","]"," ","x">>,
                            wikilinks |-> <<<<"A","l","p","a">>>>,
                            wordCount |-> 2 ],
                          [ relativePath |-> <<"h","u","b",".","m","d">>,
                            content |->
                              <<"s","e","e"," ","[","[","A","l","p","a","]","]"," ","[","[","Z","z","z","z","z","z","]","]"," ","a","n","d"," ","o","m","e","g","a">>,
                            wikilinks |-> <<<<"A","l","p","a">>, <<"Z","z","z","z","z","z">>>>,
                            wordCount |-> 5 ],
                          [ relativePath |-> <<"A","l","p","h","a",".","m","d">>,
                            content |->
                              <<"g","o"," ","[","[","h","u","b","]","]">>,
                            wikilinks |-> <<<<"h","u","b">>>>,
                            wordCount |-> 2 ],
                          [ relativePath |-> <<"o","m","e","g","a",".","m","d">>,
                            content |->
                              <<"o","m","e","g","a"," ","h","u","b"," ","c"," ","d"," ","e"," ","f"," ","g"," ","h"," ","i"," ","j">>,
                            wikilinks |-> <<>>,
                            wordCount |-> 10 ] }, MaxMergeFiles)
       \/ FixCommand ]_vars

\* analyzeGraph on the vaults of documents that link in a chain: a.md links to
\* b, b.md to c, c.md to d, e.md to d, and d.md to nothing
SpecChain ==
  /\ Init
  /\ [][ \/ AddDocument(
              { [relativePath |-> <<"a",".","m","d">>, wikilinks |-> << <<"b">> >>],
                [relativePath |-> <<"b",".","m","d">>, wikilinks |-> << <<"c">> >>],
                [relativePath |-> <<"c",".","m","d">>, wikilinks |-> << <<"d">> >>],
                [relativePath |-> <<"d",".","m","d">>, wikilinks |-> <<>>],
                [relativePath |-> <<"e",".","m","d">>, wikilinks |-> << <<"d">> >>] },
              MaxChainFiles)
         \/ RunAnalyzeGraph ]_vars

\* the watch command: events for a.md, sub/b.md, .vault-mind/last-scan.json,
\* .vault-mind.md, img.png and events without a filename; time passes and
\* timers run
SpecWatch ==
  /\ Init
  /\ [][ \/ WatchEvent({ <<"a",".","m","d">>,
                         <<"s","u","b","/","b",".","m","d">>,
                         <<".","v","a","u","l","t","-","m","i","n","d","/","l","a","s","t","-",
                           "s","c","a","n",".","j","s","o","n">>,
                         <<".","v","a","u","l","t","-","m","i","n","d",".","m","d">>,
                         <<"i","m","g",".","p","n","g">>,
                         <<>> })
         \/ DebounceFires
         \/ Tick ]_vars
  /\ WF_vars(DebounceFires)
  /\ WF_vars(Tick)

\* analyzeGraph on vaults with a document whose name holds a '#'
SpecSections ==
  /\ Init
  /\ [][ \/ AddFile({ <<"A",".","m","d">>, <<"b",".","m","d">>, <<"a","#","S",".","m","d">> },
                    MaxFiles)
         \/ AddLink({ <<"a">>, <<"a","#","S">>, <<"A","#","s">>, <<"c">> }, MaxLinks)
         \/ RunAnalyzeGraph ]_vars

SpecHubs ==
  /\ Init
  /\ [][ \/ AddHubDocument(MaxHubFiles)
       \/ RunAnalyzeGraph ]_vars

\* levenshtein on the strings over a two-letter alphabet up to a length, and the
\* pair of the tests
SpecLev ==
  /\ InitCall(LET LevStrings ==
                    UNION {[1..n -> {"a", "b"}] : n \in 0..MaxLevLen}
                      \cup {<<"k","i","t","t","e","n">>, <<"s","i","t","t","i","n","g">>}
              IN  LevStrings \X LevStrings)
  /\ [][RunLevenshtein]_vars

\* findBestMatch on a target and a list of known names up to a length
SpecMatch ==
  /\ InitCall(LET MatchTargets == { <<"a","b","c">>, <<"A","b","-","c">>, <<"z","z">> }
                  MatchNames ==
                    { <<"a","b","d">>, <<"a","b","c","d">>, <<"a","b"," ","c">>,
                      <<"A","B","_","C">>, <<"a","b","c">>, <<"q">> }
              IN  MatchTargets \X UNION {[1..n -> MatchNames] : n \in 0..MaxMatchNames})
  /\ [][RunFindBestMatch]_vars

====
